---- MODULE Spec2Model ----
(***************************************************************************)
(* A model of hydromt_fiat: FiatModel.setup_hazard (hazard map ingestion   *)
(* and risk stacking, src/hydromt_fiat/fiat.py) and the ExposureVector     *)
(* table operations (src/hydromt_fiat/workflows/exposure_vector.py).       *)
(*                                                                         *)
(* The map registry (self.maps) is a Python dict: it is modelled as a      *)
(* sequence of rasters in insertion order.  A raster is a record           *)
(* [name, bands]; a band remembers the source it was loaded from and the   *)
(* return period resolved for it.  Optional config values are sequences    *)
(* of length 0 (key absent) or 1 (key set).                                *)
(*                                                                         *)
(* hydromt_fiat/workflows/hazard.py is not part of the sources at hand;    *)
(* its functions (check_parameters_type, check_parameters_size,            *)
(* check_files, read_floodmaps, check_maps_rp, check_map_uniqueness) are   *)
(* modelled from the specification, their call sites from fiat.py.         *)
(* Raster CRS / nodata normalisation (check_maps_metadata, gdal_compliant) *)
(* and the hazard.crs key read raster properties that are not modelled.    *)
(***************************************************************************)
EXTENDS Integers, Sequences, FiniteSets, TLC

VARIABLES maps, config, hz, ncalls, exposure_db, ex, pandas_aligns, curves,
          tables, disk, fiat, vm

vars ==
    <<maps, config, hz, ncalls, exposure_db, ex, pandas_aligns, curves,
      tables, disk, fiat, vm>>

hazardVars == <<maps, config, hz, ncalls>>
exposureVars == <<exposure_db, ex, pandas_aligns>>
vulnerabilityVars == <<curves>>
modelVars == <<tables, disk, fiat>>

----------------------------------------------------------------------------
(* Bounds *)

MaxMaps == 3
MaxCalls == 2
MaxRows == 2
MaxSteps == 3

(* Python None for the rp parameter (rp: Union[int, list[int], None] = None) *)
NoneRP == 0

----------------------------------------------------------------------------
(* Hazard map sources: local files, named by directory and stem *)

Stem100 == "h_RP=100_d"
Stem2 == "h_RP=2_d"
Stem10 == "h_RP=10_d"
StemNo == "dep"
StemMissing == "m"

(* The characters of each file name, for parsing *)
Chars ==
    (Stem100 :> <<"h", "_", "R", "P", "=", "1", "0", "0", "_", "d">>)
        @@ (Stem2 :> <<"h", "_", "R", "P", "=", "2", "_", "d">>)
        @@ (Stem10 :> <<"h", "_", "R", "P", "=", "1", "0", "_", "d">>)
        @@ (StemNo :> <<"d", "e", "p">>)
        @@ (StemMissing :> <<"m">>)

F100 == [dir |-> "A", stem |-> Stem100, exists |-> TRUE]
F2 == [dir |-> "A", stem |-> Stem2, exists |-> TRUE]
F10 == [dir |-> "A", stem |-> Stem10, exists |-> TRUE]
F10b == [dir |-> "B", stem |-> Stem10, exists |-> TRUE]
FNo == [dir |-> "A", stem |-> StemNo, exists |-> TRUE]
FMissing == [dir |-> "A", stem |-> StemMissing, exists |-> FALSE]

ExistingPaths == {F100, F2, F10, F10b, FNo}

MapTypes == {"water_depth", "water_level"}
RPs == {2, 10, 100}

RiskName == "risk_maps"

----------------------------------------------------------------------------
(* Parameters: a scalar or a list *)

Scalar(v) == [kind |-> "scalar", val |-> <<v>>]
List(s) == [kind |-> "list", val |-> s]

ParamNames == {"map_type", "rp", "crs", "nodata", "var", "chunks"}

Baseline(map_fn, risk) ==
    [map_fn |-> map_fn,
     map_type |-> Scalar("water_depth"),
     rp |-> Scalar(NoneRP),
     crs |-> Scalar("None"),
     nodata |-> Scalar("None"),
     var |-> Scalar("None"),
     chunks |-> Scalar("auto"),
     risk_output |-> risk]

Replicate(v, n) == [i \in 1..n |-> v]

CanonicalFn(n) == SubSeq(<<F100, F2, F10, FNo, F10b>>, 1, n)

Shapes(S, n) ==
    {Scalar(v) : v \in S} \cup {List(<<v>>) : v \in S}
        \cup {List(s) : s \in [1..n -> S]}
        \cup {List(Replicate(v, n + 1)) : v \in S}

SourceCalls ==
    {Baseline(fn, r) :
        fn \in UNION {[1..n -> ExistingPaths] : n \in 1..MaxMaps},
        r \in BOOLEAN}

MissingCalls ==
    UNION {{Baseline([CanonicalFn(n) EXCEPT ![i] = FMissing], r) :
                i \in 1..n, r \in BOOLEAN} : n \in 1..MaxMaps}

RpCalls ==
    UNION {{[Baseline(CanonicalFn(n), r) EXCEPT !.rp = p] :
                p \in Shapes(RPs, n), r \in BOOLEAN} : n \in 1..MaxMaps}

TypeCalls ==
    UNION {{[Baseline(CanonicalFn(n), r) EXCEPT !.map_type = p] :
                p \in Shapes(MapTypes, n), r \in BOOLEAN} : n \in 1..MaxMaps}

OtherShapes(n) == Shapes({"v"}, n) \ {Scalar("v")}

ShapeCalls ==
    UNION {{[Baseline(CanonicalFn(n), r) EXCEPT ![q] = p] :
                p \in OtherShapes(n), r \in BOOLEAN,
                q \in {"crs", "nodata", "var", "chunks"}} : n \in 1..MaxMaps}

HazardCalls ==
    SourceCalls \cup MissingCalls \cup RpCalls \cup TypeCalls \cup ShapeCalls

(* The calls that a history starts with: they leave each kind of registry  *)
(* (single maps, a combined dataset, the rest of a failed call, nothing).  *)
PriorCalls ==
    {Baseline(<<F100>>, FALSE), Baseline(<<F2, F10>>, FALSE),
     Baseline(<<F100>>, TRUE), Baseline(<<F10, F2>>, TRUE),
     Baseline(<<F100, FNo>>, TRUE), Baseline(<<FMissing>>, FALSE),
     [Baseline(<<F100>>, FALSE) EXCEPT !.map_type = Scalar("water_level")]}

(* Call k + 1 of a history: any call when it is the last one within the   *)
(* bound, a prior call before that.                                       *)
CallsAt(k) == IF k + 1 < MaxCalls THEN PriorCalls ELSE HazardCalls

----------------------------------------------------------------------------
(* workflows/hazard.py, modelled from the specification *)

Broadcast(p, n) ==
    IF p.kind = "scalar" \/ Len(p.val) = 1
    THEN Replicate(p.val[1], n)
    ELSE p.val

check_parameters_type(call) ==
    LET n == Len(call.map_fn) IN
    [map_fn_lst |-> call.map_fn,
     map_type_lst |-> Broadcast(call.map_type, n),
     rp_lst |-> Broadcast(call.rp, n),
     crs_lst |-> Broadcast(call.crs, n),
     nodata_lst |-> Broadcast(call.nodata, n),
     var_lst |-> Broadcast(call.var, n),
     chunks_lst |-> Broadcast(call.chunks, n)]

check_parameters_size(params) ==
    LET n == Len(params.map_fn_lst) IN
    /\ Len(params.map_type_lst) = n
    /\ Len(params.rp_lst) = n
    /\ Len(params.crs_lst) = n
    /\ Len(params.nodata_lst) = n
    /\ Len(params.var_lst) = n
    /\ Len(params.chunks_lst) = n

check_files(params) ==
    \A i \in 1..Len(params.map_fn_lst) : params.map_fn_lst[i].exists

read_floodmaps(params, idx) ==
    [da_map_fn |-> params.map_fn_lst[idx],
     da_name |-> params.map_fn_lst[idx].stem,
     da_type |-> params.map_type_lst[idx]]

DigitVal ==
    ("0" :> 0) @@ ("1" :> 1) @@ ("2" :> 2) @@ ("3" :> 3) @@ ("4" :> 4)
        @@ ("5" :> 5) @@ ("6" :> 6) @@ ("7" :> 7) @@ ("8" :> 8) @@ ("9" :> 9)

Lower(c) == IF c = "R" THEN "r" ELSE IF c = "P" THEN "p" ELSE c

MarkerAt(s, i) ==
    /\ i + 2 <= Len(s)
    /\ Lower(s[i]) = "r"
    /\ Lower(s[i + 1]) = "p"
    /\ s[i + 2] = "="

RECURSIVE DigitRun(_, _, _)
DigitRun(s, j, acc) ==
    IF j <= Len(s) /\ s[j] \in DOMAIN DigitVal
    THEN DigitRun(s, j + 1, acc * 10 + DigitVal[s[j]])
    ELSE acc

ParseRP(da_name) ==
    LET name == Chars[da_name]
        marks == {i \in 1..Len(name) : MarkerAt(name, i)} IN
    IF marks = {} THEN NoneRP
    ELSE LET i == CHOOSE m \in marks : \A k \in marks : m <= k
         IN DigitRun(name, i + 3, 0)

check_maps_rp(params, da_name, idx, risk_output) ==
    LET given == params.rp_lst[idx]
        da_rp == IF given # NoneRP THEN given
                 ELSE IF risk_output THEN ParseRP(da_name)
                 ELSE NoneRP
    IN [ok |-> ~risk_output \/ da_rp # NoneRP, da_rp |-> da_rp]

check_map_uniqueness(map_name_lst) ==
    \A i, j \in 1..Len(map_name_lst) :
        map_name_lst[i] = map_name_lst[j] => i = j

----------------------------------------------------------------------------
(* The map registry: a dict in insertion order *)

HasKey(m, k) == \E i \in 1..Len(m) : m[i].name = k

(* self.set_maps(da, name): assigning an existing key keeps its position *)
set_maps(m, da, name) ==
    LET entry == [da EXCEPT !.name = name] IN
    IF HasKey(m, name)
    THEN [i \in 1..Len(m) |-> IF m[i].name = name THEN entry ELSE m[i]]
    ELSE Append(m, entry)

Raster(src, da_rp) ==
    [name |-> src.stem,
     bands |-> <<[dir |-> src.dir, stem |-> src.stem, rp |-> da_rp]>>]

NoConfig ==
    [file |-> <<>>, return_periods |-> <<>>, elevation_reference |-> <<>>,
     subset |-> <<>>, var_as_band |-> <<>>, risk |-> <<>>]

NoStack == [bands |-> <<>>, returnperiod |-> <<>>, type |-> <<>>, name |-> <<>>]

----------------------------------------------------------------------------
(* FiatModel.setup_hazard *)

(* Mutant: the loop goes on when a return period cannot be resolved *)
RECURSIVE LoadMaps_IgnoreRp(_, _, _, _)
LoadMaps_IgnoreRp(acc, params, risk_output, idx) ==
    IF idx > Len(params.map_fn_lst) THEN acc
    ELSE LET fm == read_floodmaps(params, idx)
             res == check_maps_rp(params, fm.da_name, idx, risk_output)
         IN LoadMaps_IgnoreRp(
                [status |-> "ok",
                 maps |-> set_maps(acc.maps, Raster(fm.da_map_fn, res.da_rp),
                                   fm.da_name),
                 rp_list |-> Append(acc.rp_list, res.da_rp),
                 map_name_lst |-> Append(acc.map_name_lst, fm.da_name),
                 da_type |-> fm.da_type,
                 loaded |-> acc.loaded + 1],
                params, risk_output, idx + 1)

(* The loop over the maps (fiat.py 354-418), from map idx on.  acc carries *)
(* the registry, rp_list, map_name_lst and the da_type of the last map.    *)
RECURSIVE LoadMaps(_, _, _, _)
LoadMaps(acc, params, risk_output, idx) ==
    IF idx > Len(params.map_fn_lst) THEN acc
    ELSE LET fm == read_floodmaps(params, idx)
             res == check_maps_rp(params, fm.da_name, idx, risk_output)
         IN IF ~res.ok
            THEN [acc EXCEPT !.status = "ReturnPeriodResolutionError",
                             !.da_type = fm.da_type]
            ELSE LoadMaps(
                    [status |-> "ok",
                     maps |-> set_maps(acc.maps,
                                       Raster(fm.da_map_fn, res.da_rp),
                                       fm.da_name),
                     rp_list |-> Append(acc.rp_list, res.da_rp),
                     map_name_lst |-> Append(acc.map_name_lst, fm.da_name),
                     da_type |-> fm.da_type,
                     loaded |-> acc.loaded + 1],
                    params, risk_output, idx + 1)

RECURSIVE ConcatBands(_, _)
ConcatBands(m, i) ==
    IF i > Len(m) THEN <<>> ELSE m[i].bands \o ConcatBands(m, i + 1)

(* The stacked dataset (fiat.py 425-444): every raster of the registry,    *)
(* in registry order, concatenated along "rp"; the attributes are the      *)
(* lists collected by the loop.                                            *)
RiskDataset(m, params, rp_list, map_name_lst) ==
    [bands |-> ConcatBands(m, 1),
     returnperiod |-> rp_list,
     type |-> params.map_type_lst,
     name |-> map_name_lst]

(* fiat.py 446-451: register the dataset, then pop every key but the last *)
RiskRegistry(m, ds) ==
    LET m2 == set_maps(m, [name |-> RiskName, bands |-> ds.bands], RiskName)
    IN <<m2[Len(m2)]>>

(* Mutant: hazard.return_periods is set whether or not risk_output holds *)
EmitConfig_AlwaysReturnPeriods(cfg, m, rp_list, da_type, risk_output) ==
    [file |-> <<[dir |-> "hazard", stem |-> m[1].name, ext |-> "nc"]>>,
     return_periods |-> <<rp_list>>,
     elevation_reference |->
        <<IF da_type = "water_depth" THEN "dem" ELSE "datum">>,
     subset |-> <<m[1].name>>,
     var_as_band |-> <<risk_output>>,
     risk |-> <<risk_output>>]

(* fiat.py 453-491 *)
EmitConfig(cfg, m, rp_list, da_type, risk_output) ==
    [file |-> <<[dir |-> "hazard", stem |-> m[1].name, ext |-> "nc"]>>,
     return_periods |-> IF risk_output THEN <<rp_list>> ELSE cfg.return_periods,
     elevation_reference |->
        <<IF da_type = "water_depth" THEN "dem" ELSE "datum">>,
     subset |-> <<m[1].name>>,
     var_as_band |-> <<risk_output>>,
     risk |-> <<risk_output>>]

Outcome(status, m, cfg, loaded, ds) ==
    [status |-> status, maps |-> m, config |-> cfg,
     rp_list |-> loaded.rp_list, map_name_lst |-> loaded.map_name_lst,
     loaded |-> loaded.loaded, stacked |-> ds]

(* Mutant: the uniqueness check of fiat.py 420 is left out *)
AfterLoad_NoUniqueness(loaded, cfg, params, risk_output) ==
    LET ds == IF risk_output
              THEN RiskDataset(loaded.maps, params, loaded.rp_list,
                               loaded.map_name_lst)
              ELSE NoStack
        m2 == IF risk_output THEN RiskRegistry(loaded.maps, ds)
              ELSE loaded.maps
    IN Outcome("ok", m2,
               EmitConfig(cfg, m2, loaded.rp_list, loaded.da_type,
                          risk_output),
               loaded, ds)

(* fiat.py 420-491: after the loop *)
AfterLoad(loaded, cfg, params, risk_output) ==
    IF ~check_map_uniqueness(loaded.map_name_lst)
    THEN Outcome("DuplicateMapNameError", loaded.maps, cfg, loaded, NoStack)
    ELSE LET ds == IF risk_output
                   THEN RiskDataset(loaded.maps, params, loaded.rp_list,
                                    loaded.map_name_lst)
                   ELSE NoStack
             m2 == IF risk_output THEN RiskRegistry(loaded.maps, ds)
                   ELSE loaded.maps
         IN Outcome("ok", m2,
                    EmitConfig(cfg, m2, loaded.rp_list, loaded.da_type,
                               risk_output),
                    loaded, ds)

NothingLoaded(m) ==
    [status |-> "ok", maps |-> m, rp_list |-> <<>>, map_name_lst |-> <<>>,
     da_type |-> "", loaded |-> 0]

(* Mutant: the parameter sizes are checked after the maps are loaded *)
setup_hazard_LateSizeCheck(m, cfg, call) ==
    LET params == check_parameters_type(call)
        none == NothingLoaded(m)
    IN IF ~check_files(params)
       THEN Outcome("MissingSourceError", m, cfg, none, NoStack)
       ELSE LET loaded == LoadMaps(none, params, call.risk_output, 1)
            IN IF loaded.status # "ok"
               THEN Outcome(loaded.status, loaded.maps, cfg, loaded, NoStack)
               ELSE IF ~check_parameters_size(params)
               THEN Outcome("ConfigurationError", loaded.maps, cfg, loaded,
                            NoStack)
               ELSE AfterLoad(loaded, cfg, params, call.risk_output)

(* fiat.py 350-491: the whole call; an exception leaves the state reached *)
setup_hazard(m, cfg, call) ==
    LET params == check_parameters_type(call)
        none == NothingLoaded(m)
    IN IF ~check_parameters_size(params)
       THEN Outcome("ConfigurationError", m, cfg, none, NoStack)
       ELSE IF ~check_files(params)
       THEN Outcome("MissingSourceError", m, cfg, none, NoStack)
       ELSE LET loaded == LoadMaps(none, params, call.risk_output, 1)
            IN IF loaded.status # "ok"
               THEN Outcome(loaded.status, loaded.maps, cfg, loaded, NoStack)
               ELSE AfterLoad(loaded, cfg, params, call.risk_output)

NoCall == Baseline(<<>>, FALSE)

HazardInit ==
    /\ maps = <<>>
    /\ config = NoConfig
    /\ ncalls = 0
    /\ hz = [status |-> "none", call |-> NoCall,
             params |-> check_parameters_type(NoCall),
             rp_list |-> <<>>, map_name_lst |-> <<>>, loaded |-> 0,
             stacked |-> NoStack, maps_before |-> <<>>,
             config_before |-> NoConfig]

SetupHazard ==
    /\ ncalls < MaxCalls
    /\ \E call \in CallsAt(ncalls) :
         \E out \in {setup_hazard(maps, config, call)} :
         /\ maps' = out.maps
         /\ config' = out.config
         /\ hz' = [status |-> out.status, call |-> call,
                   params |-> check_parameters_type(call),
                   rp_list |-> out.rp_list,
                   map_name_lst |-> out.map_name_lst,
                   loaded |-> out.loaded, stacked |-> out.stacked,
                   maps_before |-> maps, config_before |-> config]
    /\ ncalls' = ncalls + 1
    /\ UNCHANGED <<exposureVars, vulnerabilityVars, modelVars, vm>>

----------------------------------------------------------------------------
(* ExposureVector: the exposure table (self.exposure_db) is a data frame, *)
(* a sequence of column names and a sequence of rows; a row maps each      *)
(* column name to its value.  index names the column that set_index made  *)
(* the index ("" for the default RangeIndex, where row i has label i - 1); *)
(* an index column is not among the columns, its values stay in the rows.  *)

EmptyFrame == [columns |-> <<>>, rows |-> <<>>, index |-> ""]

OID == "Object ID"

(* nsi_fiat_translation: exposure column -> column of the NSI source *)
Translation ==
    <<[fiat |-> OID, nsi |-> "fd_id"],
      [fiat |-> "Secondary Object Type", nsi |-> "occtype"],
      [fiat |-> "Max Potential Damage: Structure", nsi |-> "val_struct"],
      [fiat |-> "Max Potential Damage: Content", nsi |-> "val_cont"],
      [fiat |-> "X Coordinate", nsi |-> "x"],
      [fiat |-> "Y Coordinate", nsi |-> "y"]>>

MPDColumns ==
    {"Max Potential Damage: Structure", "Max Potential Damage: Content"}

DamageColumn(t) ==
    CASE t = "Structure" -> "Max Potential Damage: Structure"
      [] t = "Content" -> "Max Potential Damage: Content"

SourceRows ==
    [fd_id : {3, 5}, occtype : {"RES1", "COM1"}, val_struct : {10},
     val_cont : {5}, x : {0}, y : {0}]

SourceTables == UNION {[1..n -> SourceRows] : n \in 0..MaxRows}

HasColumn(df, c) == \E k \in 1..Len(df.columns) : df.columns[k] = c

Column(df, c) == [i \in 1..Len(df.rows) |-> df.rows[i][c]]

SeqToSet(s) == {s[i] : i \in 1..Len(s)}

(* df[c] = series, for a series as long as the frame or an empty frame *)
AssignColumn(df, c, series) ==
    IF df.columns = <<>>
    THEN [columns |-> <<c>>,
          rows |-> [i \in 1..Len(series) |-> (c :> series[i])],
          index |-> df.index]
    ELSE [columns |-> IF HasColumn(df, c) THEN df.columns
                      ELSE Append(df.columns, c),
          rows |-> [i \in 1..Len(df.rows) |-> (c :> series[i]) @@ df.rows[i]],
          index |-> df.index]

RECURSIVE FillColumns(_, _, _)
FillColumns(df, source_data, k) ==
    IF k > Len(Translation) THEN df
    ELSE FillColumns(
            AssignColumn(df, Translation[k].fiat,
                         [i \in 1..Len(source_data) |->
                             source_data[i][Translation[k].nsi]]),
            source_data, k + 1)

(* exposure_vector.py 110-112: the new IDs are assigned to source_data *)
Renumber(source_data) ==
    [i \in 1..Len(source_data) |-> (OID :> i) @@ source_data[i]]

(* exposure_vector.py 81-120.  The call of setup_ground_floor_height at  *)
(* line 114 passes one argument to a method that requires three, so the  *)
(* NSI branch ends there with a TypeError.                               *)
setup_from_single_source(df, source, source_data, gfh) ==
    IF source = "NSI"
    THEN LET filled == FillColumns(df, source_data, 1)
             ids == Column(filled, OID)
         IN [exposure_db |-> filled,
             source_data |->
                IF Len(filled.rows) # Cardinality(SeqToSet(ids))
                THEN Renumber(source_data)
                ELSE source_data,
             status |-> "TypeError"]
    ELSE [exposure_db |-> df, source_data |-> source_data, status |-> "ok"]

(* exposure_vector.py 368-377; positions are 1-based here *)
get_object_ids(df, objectids) ==
    IF objectids.kind = "list"
    THEN [status |-> "AttributeError", idx |-> {}]
    ELSE IF objectids.val[1] \in {"all", "All", "ALL"}
    THEN [status |-> "ok", idx |-> 1..Len(df.rows)]
    ELSE [status |-> "TypeError", idx |-> {}]

(* df[cols]: a new frame holding copies of the columns *)
GetColumns(df, cols) ==
    [columns |-> cols,
     rows |-> [i \in 1..Len(df.rows) |->
                  [c \in SeqToSet(cols)
                          \cup (IF df.index = "" THEN {} ELSE {df.index}) |->
                      df.rows[i][c]]],
     index |-> df.index]

(* frame.iloc[idx] = value *)
ILocAssign(frame, idx, value) ==
    [frame EXCEPT !.rows =
        [i \in 1..Len(frame.rows) |->
            IF i \in idx
            THEN [c \in DOMAIN frame.rows[i] |->
                     IF c = frame.index THEN frame.rows[i][c] ELSE value]
            ELSE frame.rows[i]]]

(* As setup_max_potential_damage, but the value is added to the selected  *)
(* cells of the table itself.                                              *)
setup_max_potential_damage_Additive(df, objectids, damage_types, value) ==
    LET sel == get_object_ids(df, objectids) IN
    IF sel.status # "ok"
    THEN [exposure_db |-> df, status |-> sel.status, scratch |-> EmptyFrame]
    ELSE IF damage_types.kind = "list"
    THEN [exposure_db |-> df, status |-> "AttributeError",
          scratch |-> EmptyFrame]
    ELSE IF damage_types.val[1] \notin {"all", "All", "ALL"}
    THEN [exposure_db |-> df, status |-> "KeyError", scratch |-> EmptyFrame]
    ELSE [exposure_db |->
             [df EXCEPT !.rows =
                 [i \in 1..Len(df.rows) |->
                     IF i \in sel.idx
                     THEN [c \in DOMAIN df.rows[i] |->
                              IF c \in MPDColumns
                              THEN df.rows[i][c] + value
                              ELSE df.rows[i][c]]
                     ELSE df.rows[i]]],
          status |-> "ok", scratch |-> EmptyFrame]

(* exposure_vector.py 131-154.  objectids.lower() and damage_types.lower() *)
(* exist for strings only.  Line 154 assigns into                          *)
(* self.exposure_db[damage_cols], a new frame that is dropped afterwards.  *)
setup_max_potential_damage(df, objectids, damage_types, value) ==
    LET sel == get_object_ids(df, objectids) IN
    IF sel.status # "ok"
    THEN [exposure_db |-> df, status |-> sel.status, scratch |-> EmptyFrame]
    ELSE IF damage_types.kind = "list"
    THEN [exposure_db |-> df, status |-> "AttributeError",
          scratch |-> EmptyFrame]
    ELSE IF damage_types.val[1] \notin {"all", "All", "ALL"}
    THEN [exposure_db |-> df, status |-> "KeyError", scratch |-> EmptyFrame]
    ELSE LET IsMpd(c) == c \in MPDColumns
             damage_cols == SelectSeq(df.columns, IsMpd)
         IN [exposure_db |-> df,
             status |-> "ok",
             scratch |-> ILocAssign(GetColumns(df, damage_cols), sel.idx,
                                    value)]

(* Every column name that contains "Max Potential Damage:" *)
MPDNames == MPDColumns \cup {"Max Potential Damage: Other"}

NaN == "nan"

(* df.set_index(c, inplace=True) *)
set_index(df, c) ==
    LET Other(x) == x # c
    IN [columns |-> SelectSeq(df.columns, Other), rows |-> df.rows,
        index |-> c]

(* df.reset_index(inplace=True): the index becomes the first column; the  *)
(* default index becomes a column named "index".                          *)
reset_index(df) ==
    IF df.index = ""
    THEN [columns |-> <<"index">> \o df.columns,
          rows |-> [i \in 1..Len(df.rows) |->
                       ("index" :> i - 1) @@ df.rows[i]],
          index |-> ""]
    ELSE [columns |-> <<df.index>> \o df.columns, rows |-> df.rows,
          index |-> ""]

Max(S) == CHOOSE x \in S : \A y \in S : y <= x

(* copy.iloc[positions] = value_frame, positions being the index of the   *)
(* value frame.  aligns: the rows of the value frame are matched on the   *)
(* index labels of the rows they are assigned to (older pandas); else     *)
(* they are taken in order.                                               *)
ILocAssignFrame(copy, value_frame, aligns) ==
    [copy EXCEPT !.rows =
        [i \in 1..Len(copy.rows) |->
            LET label == copy.rows[i][copy.index]
                at == {k \in 1..Len(value_frame.rows) :
                          value_frame.rows[k][value_frame.index] = i - 1}
                hits == {k \in 1..Len(value_frame.rows) :
                            value_frame.rows[k][value_frame.index] = label}
            IN IF at = {} THEN copy.rows[i]
               ELSE [c \in DOMAIN copy.rows[i] |->
                        IF c = copy.index THEN label
                        ELSE IF ~aligns THEN value_frame.rows[Max(at)][c]
                        ELSE IF hits = {} THEN NaN
                        ELSE value_frame.rows[Max(hits)][c]]]]

(* exposure_vector.py 156-178.  Both frames are re-indexed in place (172,  *)
(* 173); line 175 assigns into self.exposure_db[damage_cols], a new frame, *)
(* at the positions given by the Object IDs of the update; an error there  *)
(* leaves both frames indexed by Object ID.  aligns: the pandas of the     *)
(* build aligns the assigned frame on its labels, which raises for an      *)
(* update with repeated Object IDs.                                        *)
update_max_potential_damage(df, updated, aligns) ==
    LET IsMpd(c) == c \in MPDNames
        damage_cols == SelectSeq(updated.columns, IsMpd)
        df1 == set_index(df, OID)
        u1 == set_index(updated, OID)
        positions == SeqToSet(Column(u1, OID))
    IN IF ~HasColumn(updated, OID)
       THEN [exposure_db |-> df, updated |-> updated, status |-> "warning",
             scratch |-> EmptyFrame]
       ELSE IF ~HasColumn(df, OID)
       THEN [exposure_db |-> df, updated |-> updated, status |-> "KeyError",
             scratch |-> EmptyFrame]
       ELSE IF \E k \in 1..Len(damage_cols) : ~HasColumn(df1, damage_cols[k])
       THEN [exposure_db |-> df1, updated |-> u1, status |-> "KeyError",
             scratch |-> EmptyFrame]
       ELSE IF \E q \in positions : q \notin 0..(Len(df1.rows) - 1)
       THEN [exposure_db |-> df1, updated |-> u1, status |-> "IndexError",
             scratch |-> EmptyFrame]
       ELSE IF aligns /\ ~(\A i, j \in 1..Len(u1.rows) :
                              u1.rows[i][OID] = u1.rows[j][OID] => i = j)
       THEN [exposure_db |-> df1, updated |-> u1, status |-> "ValueError",
             scratch |-> EmptyFrame]
       ELSE [exposure_db |-> reset_index(df1), updated |-> u1,
             status |-> "ok",
             scratch |-> ILocAssignFrame(GetColumns(df1, damage_cols),
                                         GetColumns(u1, damage_cols),
                                         aligns)]

MPDS == "Max Potential Damage: Structure"

UpdateFrame(columns, seq) ==
    [columns |-> columns,
     rows |-> [i \in 1..Len(seq) |->
                  [c \in SeqToSet(columns) |->
                      IF c = OID THEN seq[i].oid ELSE seq[i].mpd]],
     index |-> ""]

(* The frames handed to update_max_potential_damage: no row, one asset,  *)
(* an Object ID beyond the last position, a repeated Object ID, no        *)
(* Object ID column, a damage column the table does not have.             *)
UpdateFrames ==
    {UpdateFrame(<<OID, MPDS>>, <<>>),
     UpdateFrame(<<OID, MPDS>>, <<[oid |-> 1, mpd |-> 99]>>),
     UpdateFrame(<<OID, MPDS>>, <<[oid |-> 0, mpd |-> 0]>>),
     UpdateFrame(<<OID, MPDS>>, <<[oid |-> 7, mpd |-> 0]>>),
     UpdateFrame(<<OID, MPDS>>,
                 <<[oid |-> 1, mpd |-> 0], [oid |-> 1, mpd |-> 99]>>),
     UpdateFrame(<<OID, MPDS>>,
                 <<[oid |-> 1, mpd |-> 99], [oid |-> 0, mpd |-> 99]>>),
     UpdateFrame(<<MPDS>>, <<[oid |-> 1, mpd |-> 0]>>),
     UpdateFrame(<<OID, "Max Potential Damage: Other">>,
                 <<[oid |-> 1, mpd |-> 0]>>)}

ObjectIdArgs ==
    {Scalar("all"), Scalar("All")}
        \cup {List(<<>>), List(<<3>>), List(<<5>>), List(<<3, 5>>)}

DamageTypeArgs ==
    {Scalar("all"), Scalar("Structure"), List(<<"Structure">>),
     List(<<"Content">>), List(<<"Structure", "Content">>)}

DamageValues == {0, 99}

NoArgs ==
    [source |-> "", ground_floor_height |-> 0, objectids |-> Scalar(""),
     damage_types |-> Scalar(""), value |-> 0, updated |-> EmptyFrame,
     floodproof_to |-> 0, raise_by |-> 0, height_reference |-> "",
     linking |-> <<>>]

ExposureInit ==
    /\ pandas_aligns \in BOOLEAN
    /\ exposure_db = EmptyFrame
    /\ ex = [op |-> "none", status |-> "ok", args |-> NoArgs,
             before |-> EmptyFrame, source_in |-> <<>>, source_data |-> <<>>,
             scratch |-> EmptyFrame, arg_after |-> EmptyFrame]

GFH == "Ground Floor Height"

(* exposure_vector.py 237-273 *)
setup_ground_floor_height(df, ground_floor_height) ==
    AssignColumn(df, GFH,
                 [i \in 1..Len(df.rows) |-> ground_floor_height])

(* The reference geometries that the asset with an Object ID lies in, by  *)
(* the value of their reference attribute; an asset that is not listed    *)
(* lies in none.                                                          *)
ReferenceValues == (3 :> {0 - 2, 1}) @@ (5 :> {3, 4})

HeightReferences == {"datum", "Datum", "shp", "geom"}

(* exposure_vector.py 183-235.  The datum branch assigns into the series  *)
(* that .loc returned for the rows below raise_by, at the positions of    *)
(* the selected rows of the table.  The reference branch ends in          *)
(* set_height_relative_to_reference (444-510), whose first statement      *)
(* reads path_geom, a name that is defined nowhere.                       *)
raise_ground_floor_height(df, objectids, raise_by, height_reference) ==
    LET sel == get_object_ids(df, objectids)
        lower == {i \in 1..Len(df.rows) : df.rows[i][GFH] < raise_by}
    IN IF ~HasColumn(df, GFH)
       THEN [exposure_db |-> df, status |-> "warning"]
       ELSE IF sel.status # "ok"
       THEN [exposure_db |-> df, status |-> sel.status]
       ELSE IF height_reference \in {"datum", "Datum"}
       THEN [exposure_db |-> df,
             status |-> IF \E i \in sel.idx : i > Cardinality(lower)
                        THEN "IndexError" ELSE "ok"]
       ELSE IF height_reference = "shp"
       THEN [exposure_db |-> df,
             status |-> IF HasColumn(df, "X Coordinate")
                            /\ HasColumn(df, "Y Coordinate")
                        THEN "NameError" ELSE "KeyError"]
       ELSE [exposure_db |-> df, status |-> "warning"]

(* A new ExposureVector is built (fiat.py 241) and filled from one source *)
SetupFromSingleSource ==
    /\ exposure_db = EmptyFrame
    /\ \E source \in {"NSI", "OSM"}, source_data \in SourceTables,
          gfh \in {0, 1} :
         \E out \in {setup_from_single_source(EmptyFrame, source,
                                              source_data, gfh)} :
         /\ exposure_db' = out.exposure_db
         /\ ex' = [op |-> "setup_from_single_source", status |-> out.status,
                   args |-> [NoArgs EXCEPT !.source = source,
                                           !.ground_floor_height = gfh],
                   before |-> EmptyFrame, source_in |-> source_data,
                   source_data |-> out.source_data, scratch |-> EmptyFrame,
                   arg_after |-> EmptyFrame]
    /\ UNCHANGED <<hazardVars, vm, pandas_aligns, vulnerabilityVars, modelVars>>

SetupMaxPotentialDamage ==
    /\ \E objectids \in ObjectIdArgs, damage_types \in DamageTypeArgs,
          value \in DamageValues :
         \E out \in {setup_max_potential_damage(exposure_db, objectids,
                                                damage_types, value)} :
         /\ exposure_db' = out.exposure_db
         /\ ex' = [op |-> "setup_max_potential_damage",
                   status |-> out.status,
                   args |-> [NoArgs EXCEPT !.objectids = objectids,
                                           !.damage_types = damage_types,
                                           !.value = value],
                   before |-> exposure_db, source_in |-> <<>>,
                   source_data |-> <<>>, scratch |-> out.scratch,
                   arg_after |-> EmptyFrame]
    /\ UNCHANGED <<hazardVars, vm, pandas_aligns, vulnerabilityVars, modelVars>>

SetupGroundFloorHeight ==
    /\ \E ground_floor_height \in {0, 2} :
         /\ exposure_db' = setup_ground_floor_height(exposure_db,
                                                     ground_floor_height)
         /\ ex' = [op |-> "setup_ground_floor_height", status |-> "ok",
                   args |-> [NoArgs EXCEPT
                                !.ground_floor_height = ground_floor_height],
                   before |-> exposure_db, source_in |-> <<>>,
                   source_data |-> <<>>, scratch |-> EmptyFrame,
                   arg_after |-> EmptyFrame]
    /\ UNCHANGED <<hazardVars, vm, pandas_aligns, vulnerabilityVars, modelVars>>

RaiseGroundFloorHeight ==
    /\ \E objectids \in ObjectIdArgs, raise_by \in {1, 2},
          height_reference \in HeightReferences :
         \E out \in {raise_ground_floor_height(exposure_db, objectids,
                                                raise_by, height_reference)} :
         /\ exposure_db' = out.exposure_db
         /\ ex' = [op |-> "raise_ground_floor_height", status |-> out.status,
                   args |-> [NoArgs EXCEPT
                                !.objectids = objectids,
                                !.raise_by = raise_by,
                                !.height_reference = height_reference],
                   before |-> exposure_db, source_in |-> <<>>,
                   source_data |-> <<>>, scratch |-> EmptyFrame,
                   arg_after |-> EmptyFrame]
    /\ UNCHANGED <<hazardVars, vm, pandas_aligns, vulnerabilityVars, modelVars>>

(* arg_after is the caller's frame as the call leaves it *)
UpdateMaxPotentialDamage ==
    /\ \E updated \in UpdateFrames :
         \E out \in {update_max_potential_damage(exposure_db, updated,
                                                 pandas_aligns)} :
         /\ exposure_db' = out.exposure_db
         /\ ex' = [op |-> "update_max_potential_damage",
                   status |-> out.status,
                   args |-> [NoArgs EXCEPT !.updated = updated],
                   before |-> exposure_db, source_in |-> <<>>,
                   source_data |-> <<>>, scratch |-> out.scratch,
                   arg_after |-> out.updated]
    /\ UNCHANGED <<hazardVars, vm, pandas_aligns, vulnerabilityVars, modelVars>>

----------------------------------------------------------------------------
(* Damage functions.  A curve is a sequence of points [wd, factor]: wd is *)
(* the water depth in hundredths, factor the damage fraction in           *)
(* ten-thousandths.  curves maps the name of a damage function to its     *)
(* curve.                                                                  *)

DFS == "Damage Function: Structure"
SOT == "Secondary Object Type"

(* As link_exposure_vulnerability, but as an inner join: an asset whose  *)
(* type has no row in the linking table is dropped.                       *)
link_exposure_vulnerability_DropUnlinked(df, linking) ==
    LET Name(link) ==
            LET hits == {k \in 1..Len(linking) : linking[k].Link = link}
            IN IF hits = {} THEN NaN ELSE linking[Max(hits)].Name
        Linked(row) == Name(row[SOT]) # NaN
    IN IF ~HasColumn(df, SOT)
       THEN [exposure_db |-> df, status |-> "KeyError"]
       ELSE LET kept == [df EXCEPT !.rows = SelectSeq(df.rows, Linked)]
            IN [exposure_db |->
                   AssignColumn(kept, DFS,
                       [i \in 1..Len(kept.rows) |-> Name(kept.rows[i][SOT])]),
                status |-> "ok"]

(* exposure_vector.py 348-354: dict(zip(Link, Name)) keeps the last Name   *)
(* of a repeated Link; map() gives NaN where the dict has no entry.        *)
link_exposure_vulnerability(df, linking) ==
    LET Name(link) ==
            LET hits == {k \in 1..Len(linking) : linking[k].Link = link}
            IN IF hits = {} THEN NaN ELSE linking[Max(hits)].Name
    IN IF ~HasColumn(df, SOT)
       THEN [exposure_db |-> df, status |-> "KeyError"]
       ELSE [exposure_db |->
                AssignColumn(df, DFS,
                    [i \in 1..Len(df.rows) |-> Name(df.rows[i][SOT])]),
             status |-> "ok"]

(* The identifiers-and-linking tables of the model *)
LinkingTables ==
    {<<[Link |-> "RES1", Name |-> "RES1-DF"],
       [Link |-> "COM1", Name |-> "COM1-DF"]>>,
     <<[Link |-> "RES1", Name |-> "RES1-DF"]>>}

BaseCurves ==
    ("RES1-DF" :> <<[wd |-> 0, factor |-> 0], [wd |-> 100, factor |-> 5000],
                    [wd |-> 200, factor |-> 10000]>>)
    @@ ("COM1-DF" :> <<[wd |-> 0, factor |-> 0], [wd |-> 150, factor |-> 3000],
                       [wd |-> 300, factor |-> 9000]>>)

(* truncate_to = floodproof_to + 0.01 (exposure_vector.py 286) *)
TruncateStep == 1

FloodproofLevels == {50, 100, 150, 250}

(* f'_fp_{str(floodproof_to).replace(".", "_")}' appended to the name *)
TruncatedName(name, floodproof_to) ==
    CASE name = "RES1-DF" /\ floodproof_to = 50 -> "RES1-DF_fp_0_5"
      [] name = "RES1-DF" /\ floodproof_to = 100 -> "RES1-DF_fp_1_0"
      [] name = "RES1-DF" /\ floodproof_to = 150 -> "RES1-DF_fp_1_5"
      [] name = "RES1-DF" /\ floodproof_to = 250 -> "RES1-DF_fp_2_5"
      [] name = "COM1-DF" /\ floodproof_to = 50 -> "COM1-DF_fp_0_5"
      [] name = "COM1-DF" /\ floodproof_to = 100 -> "COM1-DF_fp_1_0"
      [] name = "COM1-DF" /\ floodproof_to = 150 -> "COM1-DF_fp_1_5"
      [] name = "COM1-DF" /\ floodproof_to = 250 -> "COM1-DF_fp_2_5"

(* Linear interpolation of a curve at depth d (the last factor beyond the *)
(* last point), rounded down to the unit of the factors.                  *)
Interpolate(curve, d) ==
    LET at == {k \in 1..Len(curve) : curve[k].wd = d}
        lo == {k \in 1..Len(curve) : curve[k].wd < d}
        hi == {k \in 1..Len(curve) : curve[k].wd > d}
    IN IF at # {} THEN curve[Max(at)].factor
       ELSE IF hi = {} THEN curve[Max(lo)].factor
       ELSE LET a == curve[Max(lo)]
                b == curve[CHOOSE k \in hi : \A j \in hi : k <= j]
            IN a.factor
                 + ((b.factor - a.factor) * (d - a.wd)) \div (b.wd - a.wd)

Zeroed(points) ==
    [k \in 1..Len(points) |-> [wd |-> points[k].wd, factor |-> 0]]

(* As Truncate, but only the point at floodproof_to is inserted: no      *)
(* factor below it is set to 0 and no point is interpolated.              *)
Truncate_NoZeroing(curve, floodproof_to) ==
    LET Below(q) == q.wd < floodproof_to
        Above(q) == q.wd >= floodproof_to
    IN SelectSeq(curve, Below)
         \o <<[wd |-> floodproof_to, factor |-> 0]>>
         \o SelectSeq(curve, Above)

(* The curve truncated at floodproof_to: a point of factor 0 is inserted  *)
(* at floodproof_to and an interpolated point at truncate_to, and every    *)
(* point below truncate_to gets factor 0.                                  *)
Truncate(curve, floodproof_to) ==
    LET truncate_to == floodproof_to + TruncateStep
        Below(q) == q.wd < floodproof_to
        Between(q) == q.wd >= floodproof_to /\ q.wd < truncate_to
        Above(q) == q.wd >= truncate_to
    IN Zeroed(SelectSeq(curve, Below))
         \o <<[wd |-> floodproof_to, factor |-> 0]>>
         \o Zeroed(SelectSeq(curve, Between))
         \o <<[wd |-> truncate_to,
               factor |-> Interpolate(curve, truncate_to)]>>
         \o SelectSeq(curve, Above)

(* truncate_damage_function(objectids, floodproof_to,                     *)
(* damage_function_types = ["Structure"], vulnerability): every damage    *)
(* function of a selected asset gets a truncated copy under a new name,   *)
(* and the selected assets are linked to the copies.                      *)
truncate_damage_function(df, cv, objectids, floodproof_to) ==
    LET Selected(i) == df.rows[i][OID] \in SeqToSet(objectids)
        names == {df.rows[i][DFS] : i \in {j \in 1..Len(df.rows) :
                                             Selected(j)}} \ {NaN}
        new == [n \in {TruncatedName(m, floodproof_to) : m \in names} |->
                   Truncate(cv[CHOOSE m \in names :
                                  TruncatedName(m, floodproof_to) = n],
                            floodproof_to)]
    IN [exposure_db |->
           [df EXCEPT !.rows =
               [i \in 1..Len(df.rows) |->
                   IF Selected(i) /\ df.rows[i][DFS] # NaN
                   THEN [df.rows[i] EXCEPT
                            ![DFS] = TruncatedName(@, floodproof_to)]
                   ELSE df.rows[i]]],
        curves |-> new @@ cv,
        status |-> "ok"]

(* The exposure tables built from a source and linked to damage functions *)
LinkedTables ==
    {link_exposure_vulnerability(FillColumns(EmptyFrame, t, 1),
                                 linking).exposure_db :
        t \in SourceTables, linking \in LinkingTables}

ObjectIdLists == {<<>>, <<3>>, <<5>>, <<3, 5>>}

(* Linking tables given to link_exposure_vulnerability: those of the     *)
(* model, one without rows and one with two rows for the same Link        *)
LinkingArgs ==
    LinkingTables
        \cup {<<>>,
              <<[Link |-> "COM1", Name |-> "COM1-DF"],
                [Link |-> "RES1", Name |-> "RES1-DF"],
                [Link |-> "COM1", Name |-> "RES1-DF"]>>}

LinkExposureVulnerability ==
    /\ \E linking \in LinkingArgs :
         \E out \in {link_exposure_vulnerability(exposure_db, linking)} :
         /\ exposure_db' = out.exposure_db
         /\ ex' = [ex EXCEPT !.op = "link_exposure_vulnerability",
                             !.status = out.status,
                             !.args = [NoArgs EXCEPT !.linking = linking],
                             !.before = exposure_db]
    /\ UNCHANGED <<hazardVars, vm, pandas_aligns, vulnerabilityVars, modelVars>>

(* The method is applied once to a linked table and the base curves *)
TruncateDamageFunction ==
    /\ ex.op = "none"
    /\ HasColumn(exposure_db, DFS)
    /\ \E objectids \in ObjectIdLists, floodproof_to \in FloodproofLevels :
         \E out \in {truncate_damage_function(exposure_db, curves,
                                               objectids, floodproof_to)} :
         /\ exposure_db' = out.exposure_db
         /\ curves' = out.curves
         /\ ex' = [ex EXCEPT !.op = "truncate_damage_function",
                             !.status = out.status,
                             !.args = [NoArgs EXCEPT
                                          !.objectids = List(objectids),
                                          !.floodproof_to = floodproof_to],
                             !.before = exposure_db]
    /\ UNCHANGED <<hazardVars, vm, pandas_aligns, modelVars>>

VulnerabilityInit == curves = <<>>

----------------------------------------------------------------------------
(* FiatModel: tables is the table registry (self._tables), a sequence of  *)
(* [name, df] in insertion order; disk holds the directories and files    *)
(* under the model root and the stored configuration; fiat holds the mode,  *)
(* the exposure and vulnerability objects, the geometry registry and the  *)
(* exposure and vulnerability keys of the configuration.                  *)

(* _FOLDERS: the host creates them under a root that is opened to write *)
Folders == {"hazard", "exposure", "vulnerability", "output"}

RootDir == ""

Writable(mode) == mode \in {"w", "r+"}
Readable(mode) == mode \in {"r", "r+"}

HasTable(t, name) == \E k \in 1..Len(t) : t[k].name = name

Table(t, name) == t[CHOOSE k \in 1..Len(t) : t[k].name = name].df

(* self._tables[name] = df: an existing key keeps its place *)
PutTable(t, df, name) ==
    IF HasTable(t, name)
    THEN [k \in 1..Len(t) |->
             IF t[k].name = name THEN [name |-> name, df |-> df] ELSE t[k]]
    ELSE Append(t, [name |-> name, df |-> df])

(* isinstance(df, pd.DataFrame) or isinstance(df, pd.Series) *)
IsFrame(df) == "columns" \in DOMAIN df

(* A value that is no DataFrame: a list of rows *)
RowList == [list |-> <<3, 5>>]

(* Mutant: the entry is assigned before the checks *)
set_tables_AssignFirst(t, mode, df, name) ==
    IF ~IsFrame(df)
    THEN [status |-> "ValueError", tables |-> PutTable(t, df, name)]
    ELSE IF HasTable(t, name) /\ ~Writable(mode)
    THEN [status |-> "IOError", tables |-> PutTable(t, df, name)]
    ELSE [status |-> "ok", tables |-> PutTable(t, df, name)]

(* fiat.py 792-809 *)
set_tables(t, mode, df, name) ==
    IF ~IsFrame(df)
    THEN [status |-> "ValueError", tables |-> t]
    ELSE IF HasTable(t, name) /\ ~Writable(mode)
    THEN [status |-> "IOError", tables |-> t]
    ELSE [status |-> "ok", tables |-> PutTable(t, df, name)]

NoModelConfig ==
    [vulnerability_file |-> <<>>, exposure_csv |-> <<>>,
     exposure_crs |-> <<>>, exposure_file1 |-> <<>>]

VulnerabilityPath == [dir |-> "vulnerability", stem |-> "vulnerability_curves"]
ExposurePath == [dir |-> "exposure", stem |-> "exposure"]

(* Vulnerability.get_table_and_metadata() *)
VulnerabilityTable ==
    [columns |-> <<"wd", "RES1-DF", "COM1-DF">>,
     rows |-> <<("wd" :> 0) @@ ("RES1-DF" :> 0) @@ ("COM1-DF" :> 0),
                ("wd" :> 200) @@ ("RES1-DF" :> 10000) @@ ("COM1-DF" :> 5000)>>,
     index |-> ""]

VulnerabilityMetadata == <<"#UNIT=feet", "#method,mean,mean">>

LinkingFrame(linking) ==
    [columns |-> <<"Link", "Name">>,
     rows |-> [k \in 1..Len(linking) |->
                  ("Link" :> linking[k].Link) @@ ("Name" :> linking[k].Name)],
     index |-> ""]

(* fiat.py 134-204 *)
setup_vulnerability(t, model, linking) ==
    LET first == set_tables(t, model.mode, VulnerabilityTable,
                            "vulnerability_curves")
        second == set_tables(first.tables, model.mode, LinkingFrame(linking),
                             "vulnerability_identifiers")
        set == [model EXCEPT !.vulnerability = TRUE]
    IN IF first.status # "ok"
       THEN [status |-> first.status, tables |-> first.tables, fm |-> set]
       ELSE IF second.status # "ok"
       THEN [status |-> second.status, tables |-> second.tables, fm |-> set]
       ELSE [status |-> "ok", tables |-> second.tables,
             fm |-> [set EXCEPT !.config.vulnerability_file =
                                    <<VulnerabilityPath>>]]

(* The column types of a written table: text columns hold strings or NaN, *)
(* every other column holds numbers.                                      *)
TextColumns ==
    {SOT, DFS, "Link", "Name", "Extraction Method", "Primary Object Type"}

CellText(c, v) ==
    IF c \in TextColumns THEN (IF v = NaN THEN "" ELSE v) ELSE ToString(v)

(* The content of a csv file: the single-cell rows before the table       *)
(* (metadata), the first line of the table (header) and every line after  *)
(* it (lines).                                                            *)
EmptyFile == [metadata |-> <<>>, header |-> <<>>, lines |-> <<>>]

(* writer.writerow([metadata]) at the end of a file (fiat.py 737-738) *)
WriteRow(content, metadata) ==
    IF content.header = <<>> /\ content.lines = <<>>
    THEN [content EXCEPT !.metadata = Append(@, metadata)]
    ELSE [content EXCEPT !.lines = Append(@, <<metadata>>)]

RECURSIVE WriteRows(_, _, _)
WriteRows(content, metadata, k) ==
    IF k > Len(metadata) THEN content
    ELSE WriteRows(WriteRow(content, metadata[k]), metadata, k + 1)

(* to_csv(path, mode="a"): the header and the lines of the table are      *)
(* written at the end of the file                                         *)
AppendCsv(content, table) ==
    IF content.header = <<>> /\ content.lines = <<>>
    THEN [content EXCEPT !.header = table.header, !.lines = table.lines]
    ELSE [content EXCEPT !.lines = @ \o <<table.header>> \o table.lines]

(* DataFrame.to_csv(path, index=...): the header and one line per row;   *)
(* with the index, a first column without a name holds the row labels.   *)
to_csv(df, with_index) ==
    [metadata |-> <<>>,
     header |-> IF with_index THEN <<"">> \o df.columns ELSE df.columns,
     lines |-> [i \in 1..Len(df.rows) |->
                   LET cells == [k \in 1..Len(df.columns) |->
                                    CellText(df.columns[k],
                                             df.rows[i][df.columns[k]])]
                   IN IF with_index THEN <<ToString(i - 1)>> \o cells
                      ELSE cells]]

(* Names that contain "social_vulnerability" *)
SocialNames == {"social_vulnerability_scores"}

(* f"{name}.csv" of the other names, by directory and stem *)
OtherPath ==
    ("notes" :> [dir |-> RootDir, stem |-> "notes"])
    @@ ("aggregation/labels" :> [dir |-> "aggregation", stem |-> "labels"])

TableNames ==
    {"exposure", "vulnerability_curves", "vulnerability_identifiers"}
        \cup SocialNames \cup DOMAIN OtherPath

(* fiat.py 723-753: the file of a table and whether the index is written *)
TablePath(name) ==
    CASE name = "vulnerability_curves" -> VulnerabilityPath
      [] name = "exposure" -> ExposurePath
      [] name = "vulnerability_identifiers" ->
            [dir |-> "vulnerability", stem |-> "vulnerability_identifiers"]
      [] name \in SocialNames -> [dir |-> "exposure", stem |-> name]
      [] OTHER -> OtherPath[name]

WithIndex(name) ==
    name \notin {"vulnerability_curves", "exposure"} \cup SocialNames

HasFile(dsk, path) == \E f \in dsk.files : f.path = path

FileContent(dsk, path) == (CHOOSE f \in dsk.files : f.path = path).content

PutFile(dsk, path, content) ==
    [dsk EXCEPT !.files = {f \in @ : f.path # path}
                             \cup {[path |-> path, content |-> content]}]

MkDir(dsk, dir) == [dsk EXCEPT !.dirs = @ \cup {dir}]

(* As WriteFrom, without the directory check of fiat.py 756-758: the file *)
(* of a table is opened where its directory is missing.                   *)
RECURSIVE WriteFrom_NoMkdir(_, _, _, _)
WriteFrom_NoMkdir(t, dsk, metadata, k) ==
    IF k > Len(t) THEN [status |-> "ok", disk |-> dsk]
    ELSE LET name == t[k].name
             path == TablePath(name)
         IN IF path.dir \notin dsk.dirs
            THEN [status |-> "FileNotFoundError", disk |-> dsk]
            ELSE WriteFrom_NoMkdir(t,
                    PutFile(dsk, path,
                            IF name = "vulnerability_curves"
                            THEN AppendCsv(WriteRows(EmptyFile, metadata, 1),
                                           to_csv(t[k].df, FALSE))
                            ELSE to_csv(t[k].df, WithIndex(name))),
                    metadata, k + 1)

(* Mutant: the file of the vulnerability curves is opened to append *)
RECURSIVE WriteFrom_NoTruncate(_, _, _, _)
WriteFrom_NoTruncate(t, dsk, metadata, k) ==
    IF k > Len(t) THEN [status |-> "ok", disk |-> dsk]
    ELSE LET name == t[k].name
             path == TablePath(name)
             opened == IF HasFile(dsk, path) THEN FileContent(dsk, path)
                       ELSE EmptyFile
         IN IF name = "vulnerability_curves" /\ path.dir \notin dsk.dirs
            THEN [status |-> "FileNotFoundError", disk |-> dsk]
            ELSE WriteFrom_NoTruncate(t,
                    PutFile(MkDir(dsk, path.dir), path,
                            IF name = "vulnerability_curves"
                            THEN AppendCsv(WriteRows(opened, metadata, 1),
                                           to_csv(t[k].df, FALSE))
                            ELSE to_csv(t[k].df, WithIndex(name))),
                    metadata, k + 1)

(* fiat.py 723-766, the loop from table k on.  The file of the            *)
(* vulnerability curves is opened with "w", which empties it, and the     *)
(* metadata are written row by row (733-738), before the directory of the *)
(* file is looked at (756-758); the table is then written with mode "a",  *)
(* after the metadata (762).  Every other table replaces its file.        *)
RECURSIVE WriteFrom(_, _, _, _)
WriteFrom(t, dsk, metadata, k) ==
    IF k > Len(t) THEN [status |-> "ok", disk |-> dsk]
    ELSE LET name == t[k].name
             path == TablePath(name)
         IN IF name = "vulnerability_curves" /\ path.dir \notin dsk.dirs
            THEN [status |-> "FileNotFoundError", disk |-> dsk]
            ELSE WriteFrom(t,
                    PutFile(MkDir(dsk, path.dir), path,
                            IF name = "vulnerability_curves"
                            THEN AppendCsv(WriteRows(EmptyFile, metadata, 1),
                                           to_csv(t[k].df, FALSE))
                            ELSE to_csv(t[k].df, WithIndex(name))),
                    metadata, k + 1)

(* fiat.py 717-766 *)
write_tables(t, dsk, metadata) ==
    IF Len(t) = 0 THEN [status |-> "ok", disk |-> dsk]
    ELSE WriteFrom(t, dsk, metadata, 1)

(* fiat.py 574-597: update_tables *)
update_tables(t, model, db) ==
    LET first == IF model.exposure
                 THEN set_tables(t, model.mode, db, "exposure")
                 ELSE [status |-> "ok", tables |-> t]
    IN IF first.status # "ok" THEN first
       ELSE IF model.vulnerability
       THEN set_tables(first.tables, model.mode, VulnerabilityTable,
                       "vulnerability_curves")
       ELSE first

(* fiat.py 703-715.  The writers of the host (configuration, maps,        *)
(* geometries) refuse a model that is opened read-only.                   *)
write(t, dsk, model, db, hazard_maps) ==
    LET updated == update_tables(t, model, db)
        host == model.config # NoModelConfig \/ hazard_maps # <<>>
                    \/ model.geoms # <<>>
    IN IF updated.status # "ok"
       THEN [status |-> updated.status, tables |-> updated.tables,
             disk |-> dsk]
       ELSE IF host /\ ~Writable(model.mode)
       THEN [status |-> "IOError", tables |-> updated.tables, disk |-> dsk]
       ELSE LET stored == IF model.config # NoModelConfig
                          THEN [dsk EXCEPT !.settings = model.config]
                          ELSE dsk
                written == write_tables(updated.tables, stored,
                              IF model.vulnerability
                              THEN VulnerabilityMetadata ELSE <<>>)
            IN [status |-> written.status, tables |-> updated.tables,
                disk |-> written.disk]

(* The tables that are registered by hand *)
HandTables ==
    {EmptyFrame} \cup
    {link_exposure_vulnerability(
         FillColumns(EmptyFrame,
                     <<[fd_id |-> 3, occtype |-> "RES1", val_struct |-> 10,
                        val_cont |-> 5, x |-> 0, y |-> 0],
                       [fd_id |-> 5, occtype |-> "COM1", val_struct |-> 10,
                        val_cont |-> 5, x |-> 0, y |-> 0]>>, 1),
         linking).exposure_db : linking \in LinkingTables}

(* The texts that read_csv takes for a missing value *)
NaTexts == {"", "NA", "N/A", "nan", "NaN", "null", "None"}

Numbers == 0..200

ParseNumber(text) == CHOOSE n \in Numbers : ToString(n) = text

(* pd.read_csv: a text column holds the text or NaN, every other column   *)
(* is read as numbers.  typed: with dtype=_CSV_COLUMN_DATATYPES           *)
(* (exposure_vector.py 74-79) an Object ID must be an integer, and one    *)
(* that is missing is a ValueError.                                       *)
read_csv(content, typed) ==
    LET Position(c) == CHOOSE k \in 1..Len(content.header) :
                          content.header[k] = c
        Cell(c, text) ==
            IF c \in TextColumns
            THEN (IF text \in NaTexts THEN NaN ELSE text)
            ELSE ParseNumber(text)
    IN IF typed /\ \E i \in 1..Len(content.lines) :
             \E k \in 1..Len(content.header) :
                 content.header[k] = OID /\ content.lines[i][k] \in NaTexts
       THEN [status |-> "ValueError", df |-> EmptyFrame]
       ELSE [status |-> "ok",
             df |-> [columns |-> content.header,
                     rows |-> [i \in 1..Len(content.lines) |->
                                  [c \in SeqToSet(content.header) |->
                                      Cell(c, content.lines[i][Position(c)])]],
                     index |-> ""]]

(* The csv files directly under the root, by the name of their table *)
RootTables(dsk) == {f \in dsk.files : f.path.dir = RootDir}

RECURSIVE ReadRootTables(_, _, _)
ReadRootTables(t, mode, files) ==
    IF files = {} THEN [status |-> "ok", tables |-> t]
    ELSE LET f == CHOOSE g \in files : TRUE
             tbl == read_csv(f.content, FALSE)
             set == set_tables(t, mode, tbl.df, f.path.stem)
         IN IF tbl.status # "ok" THEN [status |-> tbl.status, tables |-> t]
            ELSE IF set.status # "ok" THEN set
            ELSE ReadRootTables(set.tables, mode, files \ {f})

(* fiat.py 642-681.  get_config gives None for a key that is not set, and *)
(* Path(self.root) / None is a TypeError.  ExposureVector(crs=...,        *)
(* logger=...) (664-666) is a TypeError as well: the constructor          *)
(* (exposure_vector.py 52-57) has no parameter logger.  db: the table of  *)
(* the new exposure object, if one is made.                               *)
read_tables(t, dsk, model) ==
    LET t0 == IF Writable(model.mode) THEN t ELSE <<>>
        has_v == HasFile(dsk, model.config.vulnerability_file[1])
        t1 == IF has_v
              THEN PutTable(t0, VulnerabilityTable, "vulnerability_curves")
              ELSE t0
        m1 == [model EXCEPT !.vulnerability = @ \/ has_v]
        rest == ReadRootTables(t1, model.mode, RootTables(dsk))
    IN IF model.config.vulnerability_file = <<>>
       THEN [status |-> "TypeError", tables |-> t0, fm |-> model, db |-> <<>>]
       ELSE IF model.config.exposure_csv = <<>>
       THEN [status |-> "TypeError", tables |-> t1, fm |-> m1, db |-> <<>>]
       ELSE IF HasFile(dsk, model.config.exposure_csv[1])
       THEN [status |-> "TypeError", tables |-> t1, fm |-> m1, db |-> <<>>]
       ELSE [status |-> rest.status, tables |-> rest.tables, fm |-> m1,
             db |-> <<>>]

Geometry == "geometry"

HasGeom(g, name) == \E k \in 1..Len(g) : g[k].name = name

Geom(g, name) == g[CHOOSE k \in 1..Len(g) : g[k].name = name].gdf

(* self.set_geoms(geom, name) of the host: the registry of geometries *)
set_geoms(g, gdf, name) ==
    IF HasGeom(g, name)
    THEN [k \in 1..Len(g) |->
             IF g[k].name = name THEN [name |-> name, gdf |-> gdf] ELSE g[k]]
    ELSE Append(g, [name |-> name, gdf |-> gdf])

(* Where an asset lies: in the first block group only, in the part that   *)
(* the first and the second share, or in none.                            *)
Places == {"first", "shared", "outside"}

GeomFrame(rows) ==
    [columns |-> <<OID, Geometry>>, rows |-> rows, index |-> ""]

(* The geometries that Exposure.read_geoms reads from the exposure file *)
FileGeoms ==
    GeomFrame(<<(OID :> 3) @@ (Geometry :> "first"),
                (OID :> 5) @@ (Geometry :> "first")>>)

(* fiat.py 683-701: the geometry files of the configuration are read into *)
(* the geometry registry under the stem of their names.                   *)
read_geoms(model) ==
    IF ~model.exposure THEN [status |-> "ok", fm |-> model]
    ELSE IF model.config.exposure_file1 = <<>>
    THEN [status |-> "KeyError", fm |-> model]
    ELSE [status |-> "ok",
          fm |-> [model EXCEPT !.geoms = set_geoms(@, FileGeoms, "exposure")]]

(* fiat.py 612-627: the configuration is read from the root, then the     *)
(* tables, then the geometries.                                           *)
read(t, dsk, model) ==
    LET configured == [model EXCEPT !.config = dsk.settings]
        tbls == read_tables(t, dsk, configured)
        geoms == read_geoms(tbls.fm)
    IN IF tbls.status # "ok" THEN tbls
       ELSE [status |-> geoms.status, tables |-> tbls.tables,
             fm |-> geoms.fm, db |-> tbls.db]

GivenConfig ==
    [vulnerability_file |-> <<VulnerabilityPath>>,
     exposure_csv |-> <<ExposurePath>>, exposure_crs |-> <<"EPSG:4326">>,
     exposure_file1 |-> <<[dir |-> "exposure", stem |-> "exposure"]>>]

VulnerabilityFile ==
    [path |-> VulnerabilityPath,
     content |-> AppendCsv(WriteRows(EmptyFile, VulnerabilityMetadata, 1),
                           to_csv(VulnerabilityTable, FALSE))]

ExposureFiles ==
    {[path |-> ExposurePath, content |-> to_csv(df, FALSE)] :
        df \in HandTables \ {EmptyFrame}}

NotesFile ==
    [path |-> OtherPath["notes"],
     content |-> to_csv(LinkingFrame(<<[Link |-> "RES1", Name |-> "n"]>>),
                        FALSE)]

(* The roots of models that were written before: with or without the    *)
(* vulnerability file, the exposure file and a table under the root.      *)
ExistingRoots ==
    {[dirs |-> {RootDir} \cup Folders, files |-> v \cup e \cup n,
      settings |-> GivenConfig] :
        v \in {{}, {VulnerabilityFile}},
        e \in {{}} \cup {{f} : f \in ExposureFiles},
        n \in {{}, {NotesFile}}}

(* The root of a model that is built anew *)
NewRoot ==
    [dirs |-> {RootDir} \cup Folders, files |-> {}, settings |-> NoModelConfig]

NoModelArgs == [name |-> "", df |-> EmptyFrame]

ModelInit ==
    /\ tables = <<>>
    /\ disk = NewRoot
    /\ fiat = [mode |-> "w", exposure |-> FALSE, vulnerability |-> FALSE,
             geoms |-> <<>>, config |-> NoModelConfig, op |-> "none",
             status |-> "ok", args |-> NoModelArgs, tables_before |-> <<>>,
             disk_before |-> NewRoot, steps |-> 0]

SetTables ==
    /\ fiat.steps < MaxSteps
    /\ \E name \in TableNames, df \in HandTables \cup {RowList} :
         \E out \in {set_tables(tables, fiat.mode, df, name)} :
         /\ tables' = out.tables
         /\ fiat' = [fiat EXCEPT !.op = "set_tables", !.status = out.status,
                             !.args = [name |-> name, df |-> df],
                             !.tables_before = tables,
                             !.disk_before = disk,
                             !.steps = fiat.steps + 1]
    /\ UNCHANGED <<hazardVars, vm, exposureVars, vulnerabilityVars, disk>>

SetupVulnerability ==
    /\ fiat.steps < MaxSteps
    /\ \E linking \in LinkingTables :
         \E out \in {setup_vulnerability(tables, fiat, linking)} :
         /\ tables' = out.tables
         /\ curves' = BaseCurves
         /\ fiat' = [out.fm EXCEPT !.op = "setup_vulnerability",
                                 !.status = out.status,
                                 !.args = NoModelArgs,
                                 !.tables_before = tables,
                                 !.disk_before = disk,
                             !.steps = fiat.steps + 1]
    /\ UNCHANGED <<hazardVars, vm, exposureVars, disk>>

Read ==
    /\ fiat.steps < MaxSteps
    /\ \E out \in {read(tables, disk, fiat)} :
         /\ tables' = out.tables
         /\ exposure_db' = IF out.db = <<>> THEN exposure_db ELSE out.db[1]
         /\ fiat' = [out.fm EXCEPT !.op = "read", !.status = out.status,
                                   !.args = NoModelArgs,
                                   !.tables_before = tables,
                                   !.disk_before = disk,
                                   !.steps = fiat.steps + 1]
    /\ UNCHANGED <<hazardVars, vm, ex, pandas_aligns, vulnerabilityVars, disk>>

_REQUIRED_COLUMNS == <<OID, "Extraction Method", GFH>>

_REQUIRED_VARIABLE_COLUMNS == <<DFS, MPDS>>

(* exposure_vector.py 431-442: every required column that the table lacks *)
(* is printed; the failed assertion is caught and the table is not        *)
(* touched.                                                               *)
check_required_columns(df) ==
    [exposure_db |-> df, status |-> "ok",
     reported |-> {c \in SeqToSet(_REQUIRED_COLUMNS)
                           \cup SeqToSet(_REQUIRED_VARIABLE_COLUMNS) :
                      ~HasColumn(df, c)}]

CheckRequiredColumns ==
    /\ fiat.steps < MaxSteps
    /\ \E out \in {check_required_columns(exposure_db)} :
         /\ exposure_db' = out.exposure_db
         /\ ex' = [ex EXCEPT !.op = "check_required_columns",
                             !.status = out.status, !.args = NoArgs,
                             !.before = exposure_db]
    /\ fiat' = [fiat EXCEPT !.steps = fiat.steps + 1]
    /\ UNCHANGED <<hazardVars, vm, pandas_aligns, vulnerabilityVars, tables,
                   disk>>

(* fiat.py 206-288.  A new ExposureVector is made (241); with one source  *)
(* for the three kinds of data setup_from_single_source is called with    *)
(* three arguments (245-247) where it takes two (exposure_vector.py       *)
(* 81-83), and otherwise setup_from_multiple_sources with six (252-259)   *)
(* where it takes none (exposure_vector.py 122): a TypeError both ways,   *)
(* before the table is linked, checked and registered (262-288).          *)
setup_exposure_vector(t, model, asset_locations, occupancy_type, max_potential_damage) ==
    [status |-> "TypeError", tables |-> t,
     fm |-> [model EXCEPT !.exposure = TRUE], db |-> EmptyFrame]

SetupExposureVector ==
    /\ fiat.steps < MaxSteps
    /\ \E asset_locations \in {"NSI"}, occupancy_type \in {"NSI", "OSM"},
          max_potential_damage \in {"NSI", "OSM"} :
         \E out \in {setup_exposure_vector(tables, fiat, asset_locations,
                                            occupancy_type,
                                            max_potential_damage)} :
         /\ tables' = out.tables
         /\ exposure_db' = out.db
         /\ ex' = [op |-> "init", status |-> "ok",
                   args |-> [NoArgs EXCEPT !.source = occupancy_type],
                   before |-> exposure_db, source_in |-> <<>>,
                   source_data |-> <<>>, scratch |-> EmptyFrame,
                   arg_after |-> EmptyFrame]
         /\ fiat' = [out.fm EXCEPT !.op = "setup_exposure_vector",
                                   !.status = out.status,
                                   !.args = [NoModelArgs EXCEPT
                                                !.name = max_potential_damage],
                                   !.tables_before = tables,
                                   !.disk_before = disk,
                                   !.steps = fiat.steps + 1]
    /\ UNCHANGED <<hazardVars, vm, pandas_aligns, vulnerabilityVars, disk>>

(* ExposureVector.read (exposure_vector.py 74-79) of the exposure file   *)
(* of the root                                                            *)
ExposureRead ==
    /\ fiat.steps < MaxSteps
    /\ \E out \in {IF HasFile(disk, ExposurePath)
                    THEN read_csv(FileContent(disk, ExposurePath), TRUE)
                    ELSE [status |-> "FileNotFoundError",
                          df |-> exposure_db]} :
         /\ exposure_db' = IF out.status = "ok" THEN out.df ELSE exposure_db
         /\ ex' = [ex EXCEPT !.op = "read", !.status = out.status,
                             !.args = NoArgs, !.before = exposure_db]
    /\ fiat' = [fiat EXCEPT !.op = "exposure.read", !.disk_before = disk,
                            !.tables_before = tables,
                            !.steps = fiat.steps + 1]
    /\ UNCHANGED <<hazardVars, vm, pandas_aligns, vulnerabilityVars, tables,
                   disk>>

Write ==
    /\ fiat.steps < MaxSteps
    /\ \E out \in {write(tables, disk, fiat, exposure_db, maps)} :
         /\ tables' = out.tables
         /\ disk' = out.disk
         /\ fiat' = [fiat EXCEPT !.op = "write", !.status = out.status,
                             !.args = NoModelArgs,
                             !.tables_before = tables,
                             !.disk_before = disk,
                             !.steps = fiat.steps + 1]
    /\ UNCHANGED <<hazardVars, vm, exposureVars, vulnerabilityVars>>

----------------------------------------------------------------------------
(* The view model of the API (api/hydromt_fiat_vm.py) *)

NoPath == ""

SubViewModels == {"model_vm", "exposure_vm", "vulnerability_vm", "hazard_vm"}

(* Singleton.__new__ (17-23): the instance of the class is made once.     *)
(* Objects are numbered in the order in which they are made.              *)
Singleton_new(v) ==
    IF v.instance = 0
    THEN [v EXCEPT !.instance = v.made + 1, !.made = v.made + 1]
    ELSE v

(* DataCatalog(catalog_path) of the host: a catalog file that does not    *)
(* exist cannot be read.                                                  *)
CatalogExists(catalog_path) == catalog_path # "missing.yml"

(* Mutant: the body of __init__ runs at every construction *)
HydroMtViewModel_init_NoGuard(v, database_path, catalog_path, hydromt_fiat_path) ==
    LET with_db == [v EXCEPT !.database = <<database_path>>,
                             !.started = v.started + 1]
        with_catalog == [with_db EXCEPT !.data_catalog = <<catalog_path>>]
        with_vms == IF hydromt_fiat_path # NoPath
                    THEN [with_catalog EXCEPT
                             !.attrs = @ \cup {"fiat_model"}
                                         \cup SubViewModels]
                    ELSE with_catalog
    IN IF ~CatalogExists(catalog_path)
       THEN [status |-> "FileNotFoundError", vm |-> with_db]
       ELSE [status |-> "ok",
             vm |-> [with_vms EXCEPT !.is_initialized = TRUE,
                                     !.completed = v.completed + 1]]

(* HydroMtViewModel.__init__ (31-59): the body runs while the class is    *)
(* not initialized; the database and the catalog are class attributes,    *)
(* the FiatModel and the four sub view models are made only where a       *)
(* hydromt_fiat_path is given (41-57), and is_initialized is set at the   *)
(* end of the body (59).                                                  *)
HydroMtViewModel_init(v, database_path, catalog_path, hydromt_fiat_path) ==
    LET with_db == [v EXCEPT !.database = <<database_path>>,
                             !.started = v.started + 1]
        with_catalog == [with_db EXCEPT !.data_catalog = <<catalog_path>>]
        with_vms == IF hydromt_fiat_path # NoPath
                    THEN [with_catalog EXCEPT
                             !.attrs = @ \cup {"fiat_model"}
                                         \cup SubViewModels]
                    ELSE with_catalog
    IN IF v.is_initialized THEN [status |-> "ok", vm |-> v]
       ELSE IF ~CatalogExists(catalog_path)
       THEN [status |-> "FileNotFoundError", vm |-> with_db]
       ELSE [status |-> "ok",
             vm |-> [with_vms EXCEPT !.is_initialized = TRUE,
                                     !.completed = v.completed + 1]]

(* HydroMtViewModel(database_path, catalog_path, hydromt_fiat_path) *)
construct(v, database_path, catalog_path, hydromt_fiat_path) ==
    HydroMtViewModel_init(Singleton_new(v), database_path, catalog_path,
                          hydromt_fiat_path)

(* build_config_ini (69-80) reads model_vm, hazard_vm, vulnerability_vm   *)
(* and exposure_vm of the instance and writes config.ini to the drive of  *)
(* the database.                                                          *)
build_config_ini(v) ==
    IF ~(SubViewModels \subseteq v.attrs)
    THEN [status |-> "AttributeError", vm |-> v]
    ELSE [status |-> "ok", vm |-> [v EXCEPT !.files = @ \cup {"config.ini"}]]

(* save_data_catalog (65-67) *)
save_data_catalog(v) ==
    IF v.database = <<>> \/ v.data_catalog = <<>>
    THEN [status |-> "AttributeError", vm |-> v]
    ELSE [status |-> "ok",
          vm |-> [v EXCEPT !.files = @ \cup {"data_catalog.yml"}]]

NoConstruction ==
    [database_path |-> NoPath, catalog_path |-> NoPath,
     hydromt_fiat_path |-> NoPath]

ViewModelInit ==
    vm = [instance |-> 0, made |-> 0, is_initialized |-> FALSE,
          database |-> <<>>, data_catalog |-> <<>>, attrs |-> {},
          files |-> {}, started |-> 0, completed |-> 0,
          op |-> "none", status |-> "ok", args |-> NoConstruction,
          returned |-> <<>>, first |-> <<>>, steps |-> 0]

Construct ==
    /\ vm.steps < MaxSteps
    /\ \E database_path \in {"db1", "db2"},
          catalog_path \in {"catalog1.yml", "catalog2.yml", "missing.yml"},
          hydromt_fiat_path \in {NoPath, "fiat"} :
         \E out \in {construct(vm, database_path, catalog_path,
                                hydromt_fiat_path)} :
         LET args == [database_path |-> database_path,
                      catalog_path |-> catalog_path,
                      hydromt_fiat_path |-> hydromt_fiat_path]
         IN vm' = [out.vm EXCEPT
                      !.op = "construct", !.status = out.status,
                      !.args = args,
                      !.returned = IF out.status = "ok"
                                   THEN Append(@, out.vm.instance) ELSE @,
                      !.first = IF out.status = "ok" /\ @ = <<>>
                                THEN <<args>> ELSE @,
                      !.steps = vm.steps + 1]
    /\ UNCHANGED <<hazardVars, exposureVars, vulnerabilityVars, modelVars>>

(* The methods are called on an instance that a construction returned *)
BuildConfigIni ==
    /\ vm.steps < MaxSteps
    /\ vm.returned # <<>>
    /\ \E out \in {build_config_ini(vm)} :
         vm' = [out.vm EXCEPT !.op = "build_config_ini",
                              !.status = out.status,
                              !.args = NoConstruction,
                              !.steps = vm.steps + 1]
    /\ UNCHANGED <<hazardVars, exposureVars, vulnerabilityVars, modelVars>>

SaveDataCatalog ==
    /\ vm.steps < MaxSteps
    /\ vm.returned # <<>>
    /\ \E out \in {save_data_catalog(vm)} :
         vm' = [out.vm EXCEPT !.op = "save_data_catalog",
                              !.status = out.status,
                              !.args = NoConstruction,
                              !.steps = vm.steps + 1]
    /\ UNCHANGED <<hazardVars, exposureVars, vulnerabilityVars, modelVars>>

ViewModelNext == Construct \/ BuildConfigIni \/ SaveDataCatalog

Init ==
    /\ HazardInit /\ ExposureInit /\ VulnerabilityInit /\ ModelInit
    /\ ViewModelInit

Next == SetupHazard

SpecViewModel == Init /\ [][ViewModelNext]_vars

Spec == Init /\ [][Next]_vars

ExposureNext ==
    \/ SetupFromSingleSource
    \/ SetupMaxPotentialDamage
    \/ UpdateMaxPotentialDamage

SpecExposure == Init /\ [][ExposureNext]_vars

GroundFloorNext ==
    \/ SetupFromSingleSource
    \/ SetupGroundFloorHeight
    \/ RaiseGroundFloorHeight

SpecGroundFloor == Init /\ [][GroundFloorNext]_vars

ModelNext == SetTables \/ SetupVulnerability \/ Write

SpecModel == Init /\ [][ModelNext]_vars

(* The tables of the social vulnerability module: the domain scores and  *)
(* the block groups with their composite score.                           *)
SviScores ==
    [columns |-> <<"GEO_ID", "composite_svi_z">>,
     rows |-> <<("GEO_ID" :> 1) @@ ("composite_svi_z" :> 7),
                ("GEO_ID" :> 2) @@ ("composite_svi_z" :> 9)>>,
     index |-> ""]

SviColumns == <<"index_right", "GEO_ID", "composite_svi_z">>

SviDataShp ==
    <<[places |-> {"first", "shared"},
       values |-> ("index_right" :> 0) @@ ("GEO_ID" :> 1)
                      @@ ("composite_svi_z" :> 7)],
      [places |-> {"shared"},
       values |-> ("index_right" :> 1) @@ ("GEO_ID" :> 2)
                      @@ ("composite_svi_z" :> 9)]>>

RECURSIVE Flatten(_)
Flatten(seqs) ==
    IF seqs = <<>> THEN <<>> ELSE Head(seqs) \o Flatten(Tail(seqs))

(* left.merge(right, on="Object ID"): the pairs of rows with the same    *)
(* Object ID, in the order of the left table                              *)
merge(left, right) ==
    [columns |-> left.columns \o <<Geometry>>,
     rows |-> Flatten([i \in 1..Len(left.rows) |->
                 LET Same(r) == r[OID] = left.rows[i][OID]
                     found == SelectSeq(right.rows, Same)
                 IN [j \in 1..Len(found) |->
                        left.rows[i] @@ (Geometry :> found[j][Geometry])]]),
     index |-> ""]

(* gpd.sjoin(left, right, how="inner", op="within"): one row for every   *)
(* pair of an asset and a block group that the asset lies within          *)
sjoin_inner_within(left, right) ==
    [columns |-> left.columns \o SviColumns,
     rows |-> Flatten([i \in 1..Len(left.rows) |->
                 LET Within(p) == left.rows[i][Geometry] \in p.places
                     found == SelectSeq(right, Within)
                 IN [j \in 1..Len(found) |->
                        found[j].values @@ left.rows[i]]]),
     index |-> ""]

DropColumn(df, c) ==
    LET Other(x) == x # c
    IN [columns |-> SelectSeq(df.columns, Other),
        rows |-> [i \in 1..Len(df.rows) |->
                     [x \in DOMAIN df.rows[i] \ {c} |-> df.rows[i][x]]],
        index |-> df.index]

(* fiat.py 493-563.  The scores are registered; with an exposure object   *)
(* the exposure table is merged with its geometries on Object ID and      *)
(* joined to the block groups, and the result replaces _tables            *)
(* ['exposure'] (547-563).  A table or geometries that are not registered *)
(* are a KeyError, and sjoin refuses a frame with a column index_right.   *)
setup_social_vulnerability_index(t, model) ==
    LET set == set_tables(t, model.mode, SviScores,
                          "social_vulnerability_scores")
        exposure_geoms == merge(Table(set.tables, "exposure"),
                                Geom(model.geoms, "exposure"))
        svi_exp_joined == DropColumn(sjoin_inner_within(exposure_geoms,
                                                        SviDataShp),
                                     Geometry)
    IN IF set.status # "ok" THEN set
       ELSE IF ~model.exposure THEN set
       ELSE IF ~HasTable(set.tables, "exposure")
               \/ ~HasGeom(model.geoms, "exposure")
       THEN [status |-> "KeyError", tables |-> set.tables]
       ELSE IF ~HasColumn(Table(set.tables, "exposure"), OID)
       THEN [status |-> "KeyError", tables |-> set.tables]
       ELSE IF HasColumn(Table(set.tables, "exposure"), "index_right")
       THEN [status |-> "ValueError", tables |-> set.tables]
       ELSE [status |-> "ok",
             tables |-> PutTable(set.tables, svi_exp_joined, "exposure")]

SetupSocialVulnerabilityIndex ==
    /\ fiat.steps < MaxSteps
    /\ \E out \in {setup_social_vulnerability_index(tables, fiat)} :
         /\ tables' = out.tables
         /\ fiat' = [fiat EXCEPT !.op = "setup_social_vulnerability_index",
                                 !.status = out.status,
                                 !.args = NoModelArgs,
                                 !.tables_before = tables,
                                 !.disk_before = disk,
                                 !.steps = fiat.steps + 1]
    /\ UNCHANGED <<hazardVars, vm, exposureVars, vulnerabilityVars, disk>>

(* The geometries of the assets with Object ID 3 and 5 *)
GeomFrames ==
    {GeomFrame(<<(OID :> 3) @@ (Geometry :> p),
                 (OID :> 5) @@ (Geometry :> q)>>) : p, q \in Places}
    \cup {GeomFrame(<<(OID :> 3) @@ (Geometry :> "first")>>)}

(* set_geoms of the host for the geometries of the exposure *)
SetGeoms ==
    /\ fiat.steps < MaxSteps
    /\ \E gdf \in GeomFrames :
         fiat' = [fiat EXCEPT !.geoms = set_geoms(@, gdf, "exposure"),
                             !.op = "set_geoms", !.status = "ok",
                             !.args = NoModelArgs,
                             !.tables_before = tables,
                             !.disk_before = disk,
                             !.steps = fiat.steps + 1]
    /\ UNCHANGED <<hazardVars, vm, exposureVars, vulnerabilityVars, tables,
                   disk>>

(* A model whose exposure object was made by setup_exposure_vector and    *)
(* whose exposure table was registered with set_tables                    *)
SviInit ==
    /\ HazardInit /\ VulnerabilityInit /\ ViewModelInit
    /\ disk = NewRoot
    /\ pandas_aligns \in BOOLEAN
    /\ ex = [op |-> "none", status |-> "ok", args |-> NoArgs,
             before |-> EmptyFrame, source_in |-> <<>>, source_data |-> <<>>,
             scratch |-> EmptyFrame, arg_after |-> EmptyFrame]
    /\ \E df \in HandTables \ {EmptyFrame} :
          /\ tables = PutTable(<<>>, df, "exposure")
          /\ exposure_db \in {EmptyFrame, df}
    /\ \E exposure \in BOOLEAN :
          fiat = [mode |-> "w", exposure |-> exposure, vulnerability |-> FALSE,
                  geoms |-> <<>>, config |-> NoModelConfig, op |-> "none",
                  status |-> "ok", args |-> NoModelArgs,
                  tables_before |-> <<>>, disk_before |-> NewRoot,
                  steps |-> 0]

SviNext == SetGeoms \/ SetupSocialVulnerabilityIndex \/ Write

SpecSvi == SviInit /\ [][SviNext]_vars

BuildNext ==
    \/ SetupVulnerability
    \/ SetupExposureVector
    \/ SetupFromSingleSource
    \/ CheckRequiredColumns

SpecBuild == Init /\ [][BuildNext]_vars

(* A model that is opened in any mode, and its table registry *)
TablesInit ==
    /\ HazardInit /\ ExposureInit /\ VulnerabilityInit /\ ViewModelInit
    /\ tables = <<>>
    /\ disk = NewRoot
    /\ \E mode \in {"r", "r+", "w"} :
          fiat = [mode |-> mode, exposure |-> FALSE, vulnerability |-> FALSE,
                  geoms |-> <<>>, config |-> NoModelConfig, op |-> "none",
                  status |-> "ok", args |-> NoModelArgs,
                  tables_before |-> <<>>, disk_before |-> NewRoot,
                  steps |-> 0]

SpecTables == TablesInit /\ [][SetTables]_vars

(* The components are set up in any order and the model is written *)
OrderNext == SetupVulnerability \/ SetupExposureVector \/ Write

SpecOrder == Init /\ [][OrderNext]_vars

(* A model that is opened on the root of an earlier one *)
ReadInit ==
    /\ HazardInit /\ ExposureInit /\ VulnerabilityInit /\ ViewModelInit
    /\ tables = <<>>
    /\ disk \in ExistingRoots
    /\ \E mode \in {"r", "r+"} :
          fiat = [mode |-> mode, exposure |-> FALSE, vulnerability |-> FALSE,
                  geoms |-> <<>>, config |-> NoModelConfig, op |-> "none",
                  status |-> "ok", args |-> NoModelArgs,
                  tables_before |-> <<>>, disk_before |-> disk, steps |-> 0]

ReadNext == Read \/ ExposureRead \/ SetTables \/ Write

SpecRead == ReadInit /\ [][ReadNext]_vars

(* truncate_damage_function on a linked exposure table *)
TruncateInit ==
    /\ HazardInit /\ ViewModelInit
    /\ pandas_aligns \in BOOLEAN
    /\ exposure_db \in LinkedTables
    /\ ex = [op |-> "none", status |-> "ok", args |-> NoArgs,
             before |-> EmptyFrame, source_in |-> <<>>, source_data |-> <<>>,
             scratch |-> EmptyFrame, arg_after |-> EmptyFrame]
    /\ curves = BaseCurves
    /\ ModelInit

SpecTruncate == TruncateInit /\ [][TruncateDamageFunction]_vars

(* link_exposure_vulnerability is applied to tables built from a source,  *)
(* linked or not yet linked                                               *)
LinkInit ==
    /\ HazardInit /\ ViewModelInit
    /\ pandas_aligns \in BOOLEAN
    /\ exposure_db \in LinkedTables
                         \cup {FillColumns(EmptyFrame, t, 1) :
                                  t \in SourceTables}
    /\ ex = [op |-> "none", status |-> "ok", args |-> NoArgs,
             before |-> EmptyFrame, source_in |-> <<>>, source_data |-> <<>>,
             scratch |-> EmptyFrame, arg_after |-> EmptyFrame]
    /\ curves = BaseCurves
    /\ ModelInit

SpecLink == LinkInit /\ [][LinkExposureVulnerability]_vars

----------------------------------------------------------------------------
(* Properties of setup_hazard *)

Called == hz.status # "none"
Succeeded == hz.status = "ok"
RiskSucceeded == hz.status = "ok" /\ hz.call.risk_output
NMaps == Len(hz.call.map_fn)

StructuralErrors ==
    {"ConfigurationError", "MissingSourceError",
     "ReturnPeriodResolutionError", "DuplicateMapNameError"}

BandRps(bands) == [i \in 1..Len(bands) |-> bands[i].rp]
BandNames(bands) == [i \in 1..Len(bands) |-> bands[i].stem]

Ascending(s) == \A i, j \in 1..Len(s) : i < j => s[i] <= s[j]
StrictlyIncreasing(s) == \A i, j \in 1..Len(s) : i < j => s[i] < s[j]

(* The return period written in each file name of the model *)
NamedRP == (Stem100 :> 100) @@ (Stem2 :> 2) @@ (Stem10 :> 10)

ParamOf(call, q) ==
    CASE q = "map_type" -> call.map_type
      [] q = "rp" -> call.rp
      [] q = "crs" -> call.crs
      [] q = "nodata" -> call.nodata
      [] q = "var" -> call.var
      [] q = "chunks" -> call.chunks

ListOf(params, q) ==
    CASE q = "map_type" -> params.map_type_lst
      [] q = "rp" -> params.rp_lst
      [] q = "crs" -> params.crs_lst
      [] q = "nodata" -> params.nodata_lst
      [] q = "var" -> params.var_lst
      [] q = "chunks" -> params.chunks_lst

(* C1: after a successful risk call the bands of the stacked dataset are   *)
(* in ascending return-period order, whatever the input order, and the     *)
(* returnperiod and name attributes (and hazard.return_periods) follow     *)
(* that band order.                                                        *)
C1_BandsSortedByReturnPeriod ==
    RiskSucceeded =>
        /\ Ascending(BandRps(hz.stacked.bands))
        /\ Ascending(hz.stacked.returnperiod)
        /\ config.return_periods = <<hz.stacked.returnperiod>>
        /\ hz.stacked.returnperiod = BandRps(hz.stacked.bands)
        /\ hz.stacked.name = BandNames(hz.stacked.bands)

(* C2: after a successful risk call the emitted return-period list (the    *)
(* config key and the dataset attribute) is strictly increasing, so it     *)
(* holds no value twice.                                                   *)
C2_ReturnPeriodsStrictlyIncreasing ==
    RiskSucceeded =>
        /\ config.return_periods # <<>>
        /\ StrictlyIncreasing(config.return_periods[1])
        /\ StrictlyIncreasing(hz.stacked.returnperiod)

(* C3: after a successful risk call the registry holds the combined risk   *)
(* dataset and nothing else, also when the registry was not empty before.  *)
C3_OnlyCombinedDatasetRemains ==
    RiskSucceeded =>
        /\ Len(maps) = 1
        /\ maps[1].name = RiskName
        /\ maps[1].bands = hz.stacked.bands

(* C4: the stacked dataset of a risk call has as many bands as the call    *)
(* was given maps.                                                         *)
C4_BandCountEqualsMapCount ==
    RiskSucceeded => Len(hz.stacked.bands) = NMaps

(* C5: a call that aborts with a structural error leaves the registry and  *)
(* the hazard configuration as they were before the call.                  *)
C5_NoPartialStateOnError ==
    hz.status \in StructuralErrors =>
        /\ maps = hz.maps_before
        /\ config = hz.config_before

DerivedNames(call) == [i \in 1..Len(call.map_fn) |-> call.map_fn[i].stem]

HeldUnderOwnName(i) ==
    LET src == hz.call.map_fn[i]
        own(b) == b.dir = src.dir /\ b.stem = src.stem
    IN IF hz.call.risk_output
       THEN \E k \in 1..Len(hz.stacked.bands) : own(hz.stacked.bands[k])
       ELSE \E k \in 1..Len(maps) :
                /\ maps[k].name = src.stem
                /\ Len(maps[k].bands) = 1
                /\ own(maps[k].bands[1])

C7_ParametersBroadcastOrRejected ==
    Called =>
        \A q \in ParamNames :
            LET p == ParamOf(hz.call, q) IN
            /\ p.kind = "scalar" =>
                  /\ Len(ListOf(hz.params, q)) = NMaps
                  /\ \A i \in 1..NMaps : ListOf(hz.params, q)[i] = p.val[1]
            /\ (p.kind = "list" /\ Len(p.val) \notin {1, NMaps}) =>
                  /\ hz.status = "ConfigurationError"
                  /\ hz.loaded = 0
                  /\ maps = hz.maps_before

C7_Witness ==
    /\ hz.status = "ConfigurationError"
    /\ hz.call.chunks.kind = "list"
    /\ hz.call.map_type.kind = "scalar"
    /\ NMaps = MaxMaps
    /\ hz.maps_before # <<>>

Unresolvable(call, i) ==
    /\ Broadcast(call.rp, Len(call.map_fn))[i] = NoneRP
    /\ call.map_fn[i].stem \notin DOMAIN NamedRP

(* C8: in a risk call that passes the parameter and file checks, a map     *)
(* without an explicit return period gets the one written in its file      *)
(* name; when some map has neither, the call ends in the return-period     *)
(* error and the hazard configuration is not touched.                      *)
C8_ReturnPeriodFromNameOrFail ==
    (Called /\ hz.call.risk_output
        /\ hz.status \notin {"ConfigurationError", "MissingSourceError"}) =>
        /\ (\E i \in 1..NMaps : Unresolvable(hz.call, i)) =>
              /\ hz.status = "ReturnPeriodResolutionError"
              /\ config = hz.config_before
        /\ \A i \in 1..Len(hz.rp_list) :
              hz.params.rp_lst[i] = NoneRP =>
                  hz.rp_list[i] = NamedRP[hz.call.map_fn[i].stem]

C8_Witness ==
    /\ hz.status = "ReturnPeriodResolutionError"
    /\ hz.call.rp = Scalar(NoneRP)
    /\ Len(hz.rp_list) >= 1
    /\ hz.rp_list[1] = 100
    /\ hz.config_before # NoConfig

----------------------------------------------------------------------------
(* Properties of the exposure table *)

ObjectIds(df) == Column(df, OID)

Unique(s) == \A i, j \in 1..Len(s) : s[i] = s[j] => i = j

SourceIds(source_data) == [i \in 1..Len(source_data) |-> source_data[i].fd_id]

BuiltFromNSI ==
    ex.op = "setup_from_single_source" /\ ex.args.source = "NSI"

(* C9: after the table is built from a single source with a non-unique    *)
(* Object ID column, the Object IDs of the table are 1..n in row order;   *)
(* unique source IDs are kept.                                            *)
C9_ObjectIdsRenumbered ==
    BuiltFromNSI =>
        /\ Len(exposure_db.rows) = Len(ex.source_in)
        /\ ObjectIds(exposure_db) =
              IF Unique(SourceIds(ex.source_in))
              THEN SourceIds(ex.source_in)
              ELSE [i \in 1..Len(ex.source_in) |-> i]

SelectedRow(df, objectids, i) ==
    IF objectids.kind = "list"
    THEN df.rows[i][OID] \in SeqToSet(objectids.val)
    ELSE TRUE

SelectedColumn(damage_types, c) ==
    IF damage_types.kind = "list"
    THEN \E k \in 1..Len(damage_types.val) :
            c = DamageColumn(damage_types.val[k])
    ELSE c \in MPDColumns

(* C10: after setup_max_potential_damage has returned, every selected     *)
(* asset holds the value in every selected damage column and every other  *)
(* cell of the table is as before.                                        *)
C10_SelectedDamageSet ==
    (ex.op = "setup_max_potential_damage" /\ ex.status = "ok") =>
        /\ exposure_db.columns = ex.before.columns
        /\ Len(exposure_db.rows) = Len(ex.before.rows)
        /\ \A i \in 1..Len(exposure_db.rows) :
              \A c \in SeqToSet(exposure_db.columns) :
                  exposure_db.rows[i][c] =
                      IF /\ SelectedRow(ex.before, ex.args.objectids, i)
                         /\ SelectedColumn(ex.args.damage_types, c)
                      THEN ex.args.value
                      ELSE ex.before.rows[i][c]

(* C11: the maximum-potential-damage override is idempotent: applied once *)
(* more with the same inputs (the same values, or the very frame the      *)
(* first call was given), it ends as the first application did and leaves *)
(* the rows, columns and Object IDs of the table as they are.             *)
C11_OverrideIdempotent ==
    /\ ex.op = "setup_max_potential_damage" =>
          \E again \in {setup_max_potential_damage(exposure_db,
                            ex.args.objectids, ex.args.damage_types,
                            ex.args.value)} :
              /\ again.exposure_db = exposure_db
              /\ again.status = ex.status
    /\ ex.op = "update_max_potential_damage" =>
          \A updated \in {ex.args.updated, ex.arg_after} :
              update_max_potential_damage(exposure_db, updated,
                                          pandas_aligns).exposure_db
                  = exposure_db

C11_Witness ==
    /\ ex.op = "update_max_potential_damage"
    /\ ex.status = "ok"
    /\ Len(exposure_db.rows) = MaxRows
    /\ Len(ex.args.updated.rows) >= 1
    /\ \E i \in 1..Len(exposure_db.rows) :
          \E k \in 1..Len(ex.args.updated.rows) :
              /\ ex.args.updated.rows[k][OID] = i - 1
              /\ ex.args.updated.rows[k][MPDS] # exposure_db.rows[i][MPDS]

(* The reference value of an asset: the largest value of the reference   *)
(* geometries it lies in, values that are not positive counted as 0       *)
MaxReference(oid) ==
    IF oid \in DOMAIN ReferenceValues
    THEN Max({IF v > 0 THEN v ELSE 0 : v \in ReferenceValues[oid]})
    ELSE 0

(* C13: after raise_ground_floor_height with a reference geometry on a    *)
(* table that has ground floor heights, every selected asset has the      *)
(* largest reference value of its geometries (at least 0) plus raise_by   *)
(* as its Ground Floor Height, by Object ID, and every other asset keeps  *)
(* its height.                                                            *)
C13_RaisedToReference ==
    (/\ ex.op = "raise_ground_floor_height"
     /\ ex.args.height_reference = "shp"
     /\ HasColumn(ex.before, GFH)) =>
        /\ ex.status = "ok"
        /\ Len(exposure_db.rows) = Len(ex.before.rows)
        /\ \A i \in 1..Len(exposure_db.rows) :
              exposure_db.rows[i][GFH] =
                 IF SelectedRow(ex.before, ex.args.objectids, i)
                 THEN MaxReference(ex.before.rows[i][OID]) + ex.args.raise_by
                 ELSE ex.before.rows[i][GFH]

----------------------------------------------------------------------------
(* Properties of the damage functions *)

(* The value of a curve at depth d *)
ValueAt(curve, d) == Interpolate(curve, d)

Depths == 0..300

(* C12: after truncate_damage_function, the curve of every selected asset *)
(* that has a damage function is 0 at every depth below floodproof_to,    *)
(* has a point at floodproof_to, and holds every point of the original    *)
(* curve above floodproof_to.                                              *)
C12_TruncatedBelowKeptAbove ==
    ex.op = "truncate_damage_function" =>
        \A i \in 1..Len(exposure_db.rows) :
            (/\ exposure_db.rows[i][OID] \in SeqToSet(ex.args.objectids.val)
             /\ ex.before.rows[i][DFS] # NaN) =>
                LET original == BaseCurves[ex.before.rows[i][DFS]]
                    curve == curves[exposure_db.rows[i][DFS]]
                    fp == ex.args.floodproof_to
                IN /\ \A d \in Depths : d < fp => ValueAt(curve, d) = 0
                   /\ \A k \in 1..Len(curve) :
                         curve[k].wd < fp => curve[k].factor = 0
                   /\ \E k \in 1..Len(curve) : curve[k].wd = fp
                   /\ \A k \in 1..Len(original) :
                         original[k].wd > fp =>
                             \E j \in 1..Len(curve) : curve[j] = original[k]
                   /\ \A k \in 1..Len(original) :
                         original[k].wd > fp =>
                            ValueAt(curve, original[k].wd)
                                = original[k].factor

C12_Witness ==
    /\ ex.op = "truncate_damage_function"
    /\ ex.args.floodproof_to = 150
    /\ \E i \in 1..Len(exposure_db.rows) :
          /\ exposure_db.rows[i][OID] \in SeqToSet(ex.args.objectids.val)
          /\ ex.before.rows[i][DFS] = "RES1-DF"
          /\ curves[exposure_db.rows[i][DFS]] =
                <<[wd |-> 0, factor |-> 0], [wd |-> 100, factor |-> 0],
                  [wd |-> 150, factor |-> 0], [wd |-> 151, factor |-> 7550],
                  [wd |-> 200, factor |-> 10000]>>

----------------------------------------------------------------------------
(* Properties of the model files *)

Written(dir, stem, df) ==
    /\ dir \in disk.dirs
    /\ HasFile(disk, [dir |-> dir, stem |-> stem])
    /\ Len(FileContent(disk, [dir |-> dir, stem |-> stem]).lines)
          = Len(df.rows)

(* C19: after write() of a model that is opened to write, every table of  *)
(* the registry is in its file under the root: exposure in                *)
(* exposure/exposure.csv, the vulnerability curves and identifiers in     *)
(* vulnerability/, a social vulnerability table in exposure/<name>.csv,   *)
(* any other in <name>.csv, the directory of the file being created       *)
(* where it was missing.                                                  *)
C19_EveryTableWritten ==
    (fiat.op = "write" /\ Writable(fiat.mode)) =>
        /\ fiat.status = "ok"
        /\ \A k \in 1..Len(tables) :
              LET name == tables[k].name
                  df == tables[k].df
              IN /\ name = "exposure" => Written("exposure", "exposure", df)
                 /\ name = "vulnerability_curves" =>
                       Written("vulnerability", "vulnerability_curves", df)
                 /\ name = "vulnerability_identifiers" =>
                       Written("vulnerability", "vulnerability_identifiers",
                               df)
                 /\ name = "social_vulnerability_scores" =>
                       Written("exposure", "social_vulnerability_scores", df)
                 /\ name = "notes" => Written(RootDir, "notes", df)
                 /\ name = "aggregation/labels" =>
                       Written("aggregation", "labels", df)

C19_Witness ==
    /\ fiat.op = "write"
    /\ fiat.status = "ok"
    /\ HasTable(tables, "aggregation/labels")
    /\ HasTable(tables, "vulnerability_curves")
    /\ "aggregation" \notin fiat.disk_before.dirs
    /\ "aggregation" \in disk.dirs
    /\ HasFile(disk, [dir |-> "aggregation", stem |-> "labels"])
    /\ HasFile(disk, VulnerabilityPath)

HadFile(path) == HasFile(fiat.disk_before, path)

(* C20: read() of a model opened read-only registers nothing but what it  *)
(* reads; where the configured vulnerability and exposure files exist it  *)
(* ends without an error with the exposure object set and its table,      *)
(* which is not empty, registered as 'exposure', and the vulnerability    *)
(* object set and its table registered as 'vulnerability_curves'; where   *)
(* a file is missing that component stays unset and read() goes on.       *)
C20_ReadSetsExposureAndVulnerability ==
    (fiat.op = "read" /\ fiat.mode = "r") =>
        /\ fiat.status = "ok"
        /\ fiat.exposure = HadFile(ExposurePath)
        /\ HasTable(tables, "exposure") = HadFile(ExposurePath)
        /\ HadFile(ExposurePath) =>
              Len(Table(tables, "exposure").rows) >= 1
        /\ fiat.vulnerability = HadFile(VulnerabilityPath)
        /\ HasTable(tables, "vulnerability_curves")
              = HadFile(VulnerabilityPath)
        /\ \A k \in 1..Len(tables) :
              \/ tables[k].name \in {"exposure", "vulnerability_curves"}
              \/ HadFile([dir |-> RootDir, stem |-> tables[k].name])

C20_FailingInput ==
    /\ fiat.op = "read" /\ fiat.mode = "r"
    /\ HadFile(ExposurePath) /\ HadFile(VulnerabilityPath)
    /\ fiat.status = "TypeError" /\ ~fiat.exposure

(* C14: where write_tables has written the registered exposure table to   *)
(* the configured exposure file, read_tables ends without an error with   *)
(* an exposure table that has the same rows in the same order, with the   *)
(* same Object ID and the same damage function names in each of them.     *)
C14_ExposureRoundTrip ==
    (/\ fiat.op = "read"
     /\ HasTable(fiat.tables_before, "exposure")
     /\ HadFile(ExposurePath)
     /\ FileContent(fiat.disk_before, ExposurePath)
          = to_csv(Table(fiat.tables_before, "exposure"), FALSE))
    => LET written == Table(fiat.tables_before, "exposure")
           got == Table(tables, "exposure")
       IN /\ fiat.status = "ok"
          /\ fiat.exposure
          /\ HasTable(tables, "exposure")
          /\ Len(got.rows) = Len(written.rows)
          /\ \A i \in 1..Len(written.rows) :
                \A c \in {OID, DFS} :
                    HasColumn(written, c) =>
                        /\ HasColumn(got, c)
                        /\ got.rows[i][c] = written.rows[i][c]

C14_FailingInput ==
    /\ fiat.op = "read" /\ fiat.mode = "r+"
    /\ HasTable(fiat.tables_before, "exposure")
    /\ HadFile(ExposurePath)
    /\ FileContent(fiat.disk_before, ExposurePath)
         = to_csv(Table(fiat.tables_before, "exposure"), FALSE)
    /\ Len(Table(fiat.tables_before, "exposure").rows) = 2
    /\ fiat.status = "TypeError"

(* ExposureVector.read gives back what to_csv has written of a table *)
ExposureReadRoundTrip ==
    (/\ ex.op = "read" /\ fiat.op = "exposure.read"
     /\ HasTable(tables, "exposure")
     /\ HadFile(ExposurePath)
     /\ FileContent(fiat.disk_before, ExposurePath)
          = to_csv(Table(tables, "exposure"), FALSE))
    => /\ ex.status = "ok"
       /\ exposure_db.rows = Table(tables, "exposure").rows

(* C18: check_required_columns ends without an error and leaves the       *)
(* exposure table as it was, whichever required columns are missing, and  *)
(* setup_exposure_vector ends without an error with the table 'exposure'  *)
(* registered and the exposure.geom configuration (csv, crs, file1) set.  *)
C18_MissingColumnNeverAborts ==
    /\ ex.op = "check_required_columns" =>
          ex.status = "ok" /\ exposure_db = ex.before
    /\ fiat.op = "setup_exposure_vector" =>
          /\ fiat.status = "ok"
          /\ HasTable(tables, "exposure")
          /\ fiat.config.exposure_csv # <<>>
          /\ fiat.config.exposure_crs # <<>>
          /\ fiat.config.exposure_file1 # <<>>

C18_FailingInput ==
    /\ fiat.op = "setup_exposure_vector"
    /\ fiat.vulnerability
    /\ fiat.status = "TypeError"
    /\ ~HasTable(tables, "exposure")

(* check_required_columns has run on a table that lacks required columns *)
C18_CheckedWithMissingColumn ==
    /\ ex.op = "check_required_columns" /\ ex.status = "ok"
    /\ Len(exposure_db.rows) >= 1
    /\ check_required_columns(exposure_db).reported # {}

OneRowEach(df, ids) ==
    /\ Len(df.rows) = Len(ids)
    /\ \A k \in 1..Len(ids) :
          \E i \in 1..Len(df.rows) :
              /\ df.rows[i][OID] = ids[k]
              /\ \A j \in 1..Len(df.rows) :
                    df.rows[j][OID] = ids[k] => j = i

(* C15: after setup_social_vulnerability_index on a model with an         *)
(* exposure object, an exposure table and one geometry for each of its    *)
(* assets, the registered exposure table has exactly one row for every    *)
(* asset that was there before the call, and the SVI columns.             *)
C15_SviJoinKeepsEveryAsset ==
    (/\ fiat.op = "setup_social_vulnerability_index"
     /\ fiat.exposure
     /\ HasTable(fiat.tables_before, "exposure")
     /\ ~HasColumn(Table(fiat.tables_before, "exposure"), "index_right")
     /\ HasGeom(fiat.geoms, "exposure")
     /\ OneRowEach(Geom(fiat.geoms, "exposure"),
                   ObjectIds(Table(fiat.tables_before, "exposure"))))
    => /\ fiat.status = "ok"
       /\ HasTable(tables, "exposure")
       /\ OneRowEach(Table(tables, "exposure"),
                     ObjectIds(Table(fiat.tables_before, "exposure")))
       /\ HasColumn(Table(tables, "exposure"), "composite_svi_z")

(* An asset that lies in no block group is dropped from the table *)
C15_FailingInput ==
    /\ fiat.op = "setup_social_vulnerability_index"
    /\ fiat.exposure /\ fiat.status = "ok"
    /\ Len(Table(fiat.tables_before, "exposure").rows) = 2
    /\ HasGeom(fiat.geoms, "exposure")
    /\ Geom(fiat.geoms, "exposure").rows[1][Geometry] = "first"
    /\ Geom(fiat.geoms, "exposure").rows[2][Geometry] = "outside"
    /\ Len(Table(tables, "exposure").rows) = 1

(* C16: after a successful setup_hazard hazard.elevation_reference is     *)
(* 'dem' where the type of an ingested map is water_depth and 'datum'     *)
(* otherwise, for every map of the call.                                  *)
C16_ElevationReferenceFollowsEveryMap ==
    Succeeded =>
        \A i \in 1..NMaps :
            config.elevation_reference =
                <<IF hz.params.map_type_lst[i] = "water_depth"
                  THEN "dem" ELSE "datum">>

(* Two maps of different types: the reference follows the last one only *)
C16_FailingInput ==
    /\ Succeeded /\ NMaps = 2
    /\ hz.params.map_type_lst = <<"water_depth", "water_level">>
    /\ config.elevation_reference = <<"datum">>

(* C17: a call without risk output for maps with distinct names, whose    *)
(* parameters fit and whose files exist, succeeds; afterwards the         *)
(* registry holds each map of the call as a raster of its own under its   *)
(* own name, every entry that was there before is still there, and        *)
(* hazard.return_periods is as it was before the call.                    *)
C17_SeparateMapsKept ==
    (/\ Called /\ ~hz.call.risk_output
     /\ check_map_uniqueness(DerivedNames(hz.call))
     /\ hz.status \notin {"ConfigurationError", "MissingSourceError"})
    => /\ Succeeded
       /\ \A i \in 1..NMaps : HeldUnderOwnName(i)
       /\ \A k \in 1..Len(hz.maps_before) :
             HasKey(maps, hz.maps_before[k].name)
       /\ Len(maps) >= NMaps
       /\ hz.stacked = NoStack
       /\ config.return_periods = hz.config_before.return_periods

(* Two maps were ingested without risk output into a registry that        *)
(* already held another one, and no return period is configured           *)
C17_Witness ==
    /\ Succeeded /\ ~hz.call.risk_output /\ NMaps = 2
    /\ check_map_uniqueness(DerivedNames(hz.call))
    /\ Len(hz.maps_before) = 1
    /\ Len(maps) = 3
    /\ config.return_periods = <<>>

(* C21: build_config_ini and save_data_catalog, called on a view model    *)
(* that was constructed with or without a hydromt_fiat_path, end without  *)
(* an error, and the four sub view models exist on the instance.          *)
C21_ViewModelMethodsComplete ==
    vm.op \in {"build_config_ini", "save_data_catalog"} =>
        /\ vm.status = "ok"
        /\ SubViewModels \subseteq vm.attrs

(* The construction of test_exposure_api.py, then build_config_ini *)
C21_FailingInput ==
    /\ vm.op = "build_config_ini"
    /\ vm.first # <<>> /\ vm.first[1].hydromt_fiat_path = NoPath
    /\ vm.status = "AttributeError"

C22_ExposureNeedsVulnerability ==
    /\ (/\ fiat.op = "setup_exposure_vector"
        /\ ~HasTable(fiat.tables_before, "vulnerability_identifiers"))
       => /\ fiat.status # "ok"
          /\ ~fiat.exposure
          /\ ~HasTable(tables, "exposure")
          /\ ~HasGeom(fiat.geoms, "exposure")
          /\ fiat.config.exposure_csv = <<>>
          /\ fiat.config.exposure_crs = <<>>
          /\ fiat.config.exposure_file1 = <<>>
    /\ (/\ fiat.op = "write"
        /\ ~HasTable(tables, "vulnerability_identifiers"))
       => ~HasFile(disk, ExposurePath)

(* write() after setup_exposure_vector without setup_vulnerability has    *)
(* put an exposure table on the disk                                      *)
C22_FailingInput ==
    /\ fiat.op = "write" /\ fiat.status = "ok"
    /\ fiat.exposure /\ ~fiat.vulnerability
    /\ ~HasFile(fiat.disk_before, ExposurePath)
    /\ HasFile(disk, ExposurePath)

MetadataRows == SeqToSet(VulnerabilityMetadata)

(* C23: after write() the file of the vulnerability curves holds the      *)
(* metadata rows of the model first and then the table of the registry:   *)
(* its header and one line for each of its rows, none of them a metadata  *)
(* row, whatever the file held before; a second write of the same         *)
(* registry leaves the content of the file as it was.                     *)
C23_MetadataThenTable ==
    (/\ fiat.op = "write" /\ fiat.status = "ok"
     /\ HasTable(tables, "vulnerability_curves"))
    => LET content == FileContent(disk, VulnerabilityPath)
           df == Table(tables, "vulnerability_curves")
       IN /\ HasFile(disk, VulnerabilityPath)
          /\ content.metadata = IF fiat.vulnerability
                                THEN VulnerabilityMetadata ELSE <<>>
          /\ content.header = df.columns
          /\ Len(content.lines) = Len(df.rows)
          /\ \A i \in 1..Len(content.lines) :
                /\ Len(content.lines[i]) = Len(df.columns)
                /\ content.lines[i][1] \notin MetadataRows
          /\ (/\ HadFile(VulnerabilityPath)
              /\ HasTable(fiat.tables_before, "vulnerability_curves")
              /\ Table(fiat.tables_before, "vulnerability_curves") = df
              /\ Len(FileContent(fiat.disk_before, VulnerabilityPath).lines)
                    = Len(df.rows))
             => Len(content.lines)
                   = Len(FileContent(fiat.disk_before,
                                     VulnerabilityPath).lines)

(* The curves with their metadata were written over a file that held them *)
C23_Witness ==
    /\ fiat.op = "write" /\ fiat.status = "ok"
    /\ fiat.vulnerability
    /\ HadFile(VulnerabilityPath)
    /\ FileContent(fiat.disk_before, VulnerabilityPath).metadata
          = VulnerabilityMetadata
    /\ FileContent(disk, VulnerabilityPath)
          = FileContent(fiat.disk_before, VulnerabilityPath)
    /\ Len(FileContent(disk, VulnerabilityPath).lines) >= 2

(* C24: set_tables leaves the registry as it was when it raises; it       *)
(* raises ValueError for a df that is no DataFrame or Series, IOError for *)
(* a name that is registered already in a model that is not opened to     *)
(* write, and otherwise sets the entry of the name to df and changes no   *)
(* other entry.                                                           *)
C24_SetTablesAllOrNothing ==
    fiat.op = "set_tables" =>
        LET before == fiat.tables_before
            name == fiat.args.name
            df == fiat.args.df
        IN /\ fiat.status # "ok" => tables = before
           /\ fiat.status = "ValueError" <=> ~IsFrame(df)
           /\ fiat.status = "IOError" <=>
                 (IsFrame(df) /\ HasTable(before, name)
                  /\ ~Writable(fiat.mode))
           /\ fiat.status \in {"ok", "ValueError", "IOError"}
           /\ fiat.status = "ok" =>
                 /\ HasTable(tables, name) /\ Table(tables, name) = df
                 /\ \A n \in TableNames \ {name} :
                       /\ HasTable(tables, n) = HasTable(before, n)
                       /\ HasTable(before, n) =>
                             Table(tables, n) = Table(before, n)

(* The three outcomes on a registry that holds the name already *)
C24_Witness ==
    /\ fiat.op = "set_tables" /\ fiat.status = "IOError"
    /\ Len(tables) = 2
    /\ Table(tables, fiat.args.name) # fiat.args.df

C24_WitnessValueError ==
    /\ fiat.op = "set_tables" /\ fiat.status = "ValueError"
    /\ HasTable(tables, fiat.args.name)

(* C25: write() of a model with an exposure object whose registered       *)
(* exposure table holds the SVI columns puts that table, with the SVI     *)
(* columns, in exposure/exposure.csv and keeps it in the registry.        *)
C25_SviTableIsWritten ==
    (/\ fiat.op = "write"
     /\ fiat.exposure
     /\ HasTable(fiat.tables_before, "exposure")
     /\ HasColumn(Table(fiat.tables_before, "exposure"), "composite_svi_z"))
    => /\ fiat.status = "ok"
       /\ Table(tables, "exposure") = Table(fiat.tables_before, "exposure")
       /\ HasFile(disk, ExposurePath)
       /\ FileContent(disk, ExposurePath)
             = to_csv(Table(fiat.tables_before, "exposure"), FALSE)

(* The exposure table of the exposure object, without the SVI columns,    *)
(* has been written in place of the joined table                          *)
C25_FailingInput ==
    /\ fiat.op = "write" /\ fiat.status = "ok" /\ fiat.exposure
    /\ HasTable(fiat.tables_before, "exposure")
    /\ HasColumn(Table(fiat.tables_before, "exposure"), "composite_svi_z")
    /\ Len(exposure_db.rows) = 2
    /\ FileContent(disk, ExposurePath) = to_csv(exposure_db, FALSE)
    /\ ~HasColumn(Table(tables, "exposure"), "composite_svi_z")

AllCallsSucceeded ==
    Succeeded /\ (ncalls = 1 \/ hz.config_before.file # <<>>)

(* C26: after setup_hazard calls that all succeeded, hazard.file is       *)
(* 'hazard/<k>.nc' for a key k of the registry that holds the data of the *)
(* latest call: the combined dataset of a risk call, or a map of the      *)
(* call otherwise.                                                        *)
C26_HazardFileOfLatestCall ==
    AllCallsSucceeded =>
        /\ config.file # <<>>
        /\ config.file[1].dir = "hazard" /\ config.file[1].ext = "nc"
        /\ HasKey(maps, config.file[1].stem)
        /\ hz.call.risk_output =>
              /\ config.file[1].stem = RiskName
              /\ \E k \in 1..Len(maps) :
                    /\ maps[k].name = RiskName
                    /\ maps[k].bands = hz.stacked.bands
        /\ ~hz.call.risk_output =>
              \E i \in 1..NMaps : config.file[1].stem = hz.call.map_fn[i].stem

(* A second call without risk output: hazard.file still names the map of  *)
(* the first call                                                         *)
C26_FailingInput ==
    /\ AllCallsSucceeded /\ ncalls = 2 /\ ~hz.call.risk_output
    /\ Len(hz.maps_before) = 1
    /\ config.file[1].stem = hz.maps_before[1].name
    /\ \A i \in 1..NMaps : hz.call.map_fn[i].stem # config.file[1].stem

(* C27: in every state hazard.risk and hazard.multiband.var_as_band are   *)
(* the risk_output of the latest successful call, and                     *)
(* hazard.return_periods is set exactly when hazard.risk is true.         *)
C27_RiskKeysConsistent ==
    /\ Succeeded =>
          /\ config.risk = <<hz.call.risk_output>>
          /\ config.var_as_band = <<hz.call.risk_output>>
    /\ config.var_as_band = config.risk
    /\ config.return_periods # <<>> <=> config.risk = <<TRUE>>

(* A call without risk output after a risk call: the list of return       *)
(* periods of the risk call is still configured                           *)
C27_FailingInput ==
    /\ Succeeded /\ ncalls = 2 /\ ~hz.call.risk_output
    /\ config.risk = <<FALSE>>
    /\ hz.config_before.risk = <<TRUE>>
    /\ config.return_periods = hz.config_before.return_periods
    /\ config.return_periods # <<>>

(* C28: raise_ground_floor_height with height_reference 'datum' sets the  *)
(* Ground Floor Height of every selected asset below raise_by to          *)
(* raise_by, lowers no height and changes no unselected asset; with an    *)
(* unrecognised height_reference, or without the column, it only warns    *)
(* and leaves the exposure table as it was.                               *)
C28_RaisedToDatum ==
    ex.op = "raise_ground_floor_height" =>
        /\ (HasColumn(ex.before, GFH)
              /\ ex.args.height_reference \in {"datum", "Datum"}) =>
              /\ Len(exposure_db.rows) = Len(ex.before.rows)
              /\ \A i \in 1..Len(exposure_db.rows) :
                    exposure_db.rows[i][GFH] =
                       IF SelectedRow(ex.before, ex.args.objectids, i)
                            /\ ex.before.rows[i][GFH] < ex.args.raise_by
                       THEN ex.args.raise_by
                       ELSE ex.before.rows[i][GFH]
        /\ (~HasColumn(ex.before, GFH)
              \/ ex.args.height_reference \notin {"datum", "Datum", "shp"}) =>
              /\ ex.status = "warning"
              /\ exposure_db = ex.before

(* All assets are selected and lie below raise_by: the table is unchanged *)
C28_FailingInput ==
    /\ ex.op = "raise_ground_floor_height"
    /\ ex.args.height_reference \in {"datum", "Datum"}
    /\ ex.args.objectids.kind = "scalar"
    /\ HasColumn(ex.before, GFH)
    /\ Len(ex.before.rows) > 0
    /\ \A i \in 1..Len(ex.before.rows) :
          ex.before.rows[i][GFH] < ex.args.raise_by
    /\ exposure_db = ex.before

(* The rows of the linking table for an object type *)
LinkRows(linking, type) ==
    {k \in 1..Len(linking) : linking[k].Link = type}

(* The cells of a row other than the damage function *)
OtherCells(row) == [c \in DOMAIN row \ {DFS} |-> row[c]]

(* C29: after link_exposure_vulnerability(T) the damage function of every *)
(* asset is the Name of a row of T whose Link is the asset's Secondary    *)
(* Object Type, or missing when T has no such row; the number of rows,    *)
(* the Object IDs and every other column are as before.                   *)
C29_LinkedByObjectType ==
    (ex.op = "link_exposure_vulnerability" /\ HasColumn(ex.before, SOT)) =>
        /\ ex.status = "ok"
        /\ HasColumn(exposure_db, DFS)
        /\ Len(exposure_db.rows) = Len(ex.before.rows)
        /\ \A i \in 1..Len(exposure_db.rows) :
              LET hits == LinkRows(ex.args.linking, ex.before.rows[i][SOT])
              IN /\ hits = {} => exposure_db.rows[i][DFS] = NaN
                 /\ hits # {} =>
                       \E k \in hits :
                          exposure_db.rows[i][DFS] = ex.args.linking[k].Name
                 /\ OtherCells(exposure_db.rows[i])
                       = OtherCells(ex.before.rows[i])

(* A table of two assets is linked: one type has a row in the linking     *)
(* table, the other has none                                              *)
C29_Witness ==
    /\ ex.op = "link_exposure_vulnerability" /\ ex.status = "ok"
    /\ Len(ex.before.rows) = 2
    /\ LinkRows(ex.args.linking, ex.before.rows[1][SOT]) # {}
    /\ LinkRows(ex.args.linking, ex.before.rows[2][SOT]) = {}
    /\ exposure_db.rows[1][DFS] # NaN
    /\ exposure_db.rows[2][DFS] = NaN

====
